---- MODULE Spec2Model ----
(***************************************************************************)
(* A model of magic.py, the Magick Image CLI tool: the Task Expander       *)
(* (MagickProcessor.process), output path selection (safe_filename), the   *)
(* per-Job pipeline (MagickProcessor.execute_task) and the three dispatch  *)
(* modes of main(): the batch worker pool, the watch-mode handler and the  *)
(* clipboard run.                                                          *)
(*                                                                         *)
(* Strings are Python strings; a path is a record [parent, name], the      *)
(* pathlib.Path folder / name.  Time is counted in ticks of half a second. *)
(***************************************************************************)
EXTENDS Integers, Sequences, FiniteSets, TLC

VARIABLES
    call,            \* arguments of the pure function being applied
    ret,             \* what the pure function returned
    pc,              \* where main() stands
    config,          \* the configuration parse_arguments returned
    fs,              \* the paths that exist on disk
    all_tasks,       \* every Job the Task Expander has produced, in order
    next_task,       \* index of the first Job no thread has taken yet
    threads,         \* per thread: the Job it executes and its output path
    outcome,         \* per Job: how its execution went so far
    runs,            \* per Job: how many times execute_task was entered
    console,         \* per Job: the kinds of the lines log() printed for it
    log_file,        \* the audit log magick_log.txt, a sequence of records
    observer,        \* the watchdog listener thread
    handler,         \* the on_created call the listener is inside
    event_queue,     \* file-creation events not delivered yet
    last_processed,  \* WatchHandler.last_processed
    handled,         \* every delivered event and what on_created did with it
    now              \* the clock, in ticks

pureVars == <<call, ret>>
poolVars == <<all_tasks, next_task, threads, outcome, runs, console, log_file>>
watchVars == <<observer, handler, event_queue, last_processed, handled, now>>
dispatchVars == <<pc, config, fs, poolVars, watchVars>>
vars == <<pureVars, dispatchVars>>

-----------------------------------------------------------------------------
(* Bounds of the model *)

\* longest sizes / qualities / formats list handed to process
MaxLen == 2
\* highest _vN file that may already exist when safe_filename is called
MaxVersion == 3
\* calls of safe_filename in one behaviour
MaxCalls == 2

-----------------------------------------------------------------------------
(* Python values and string helpers *)

None == "<None>"

Max(S) == CHOOSE m \in S : \A n \in S : n <= m

Char(s, i) == SubSeq(s, i, i)

\* str.endswith
EndsWith(s, t) ==
    Len(s) >= Len(t) /\ SubSeq(s, Len(s) - Len(t) + 1, Len(s)) = t

UpperChars == "ABCDEFGHIJKLMNOPQRSTUVWXYZ"
LowerChars == "abcdefghijklmnopqrstuvwxyz"

\* the lower-case letter of every upper-case letter
LowerOf ==
    [c \in {Char(UpperChars, i) : i \in 1..Len(UpperChars)} |->
        Char(LowerChars, CHOOSE i \in 1..Len(UpperChars) : Char(UpperChars, i) = c)]

LowerChar(c) == IF c \in DOMAIN LowerOf THEN LowerOf[c] ELSE c

RECURSIVE Lower(_)
\* str.lower
Lower(s) == IF s = "" THEN "" ELSE LowerChar(Head(s)) \o Lower(Tail(s))

\* str.rfind(c) + 1: the last position of c in s, 0 when absent
LastIndexOf(s, c) ==
    LET I == {i \in 1..Len(s) : Char(s, i) = c}
    IN  IF I = {} THEN 0 ELSE Max(I)

\* pathlib: folder / name
Path(folder, name) == [parent |-> folder, name |-> name]

\* pathlib Path.suffix: from the last dot, unless it leads or ends the name
PathSuffix(p) ==
    LET d == LastIndexOf(p.name, ".")
    IN  IF d > 1 /\ d < Len(p.name) THEN SubSeq(p.name, d, Len(p.name)) ELSE ""

\* pathlib Path.stem
PathStem(p) ==
    LET d == LastIndexOf(p.name, ".")
    IN  IF d > 1 /\ d < Len(p.name) THEN SubSeq(p.name, 1, d - 1) ELSE p.name

\* Path.exists()
PathExists(p) == p \in fs

-----------------------------------------------------------------------------
(* Constants of magic.py *)

PRESETS ==
    [k \in {"720p", "1080p", "1440p", "2k", "4k", "8k"} |->
        CASE k = "720p" -> "x720"
          [] k = "1080p" -> "x1080"
          [] k = "1440p" -> "x1440"
          [] k = "2k" -> "x2160"
          [] k = "4k" -> "x3840"
          [] k = "8k" -> "x7680"]

\* PRESETS.get(key, default)
PresetsGet(key, default) ==
    IF key \in DOMAIN PRESETS THEN PRESETS[key] ELSE default

-----------------------------------------------------------------------------
(* MagickProcessor.process: the Task Expander *)

\* the task tuple, named as execute_task unpacks it
Task(image_path, size, quality, fmt, o) ==
    [image_path |-> image_path, resize |-> size, quality |-> quality,
     fmt |-> fmt, pad_mode |-> o.pad, pad_color |-> o.pad_color,
     force |-> o.force, crop |-> o.crop, strip |-> o.strip,
     watermark |-> o.watermark, gravity |-> o.gravity]

RECURSIVE FormatLoop(_, _, _, _, _, _)
\* for fmt in formats: tasks.append(...)
FormatLoop(tasks, image_path, size, quality, formats, o) ==
    IF formats = <<>> THEN tasks
    ELSE FormatLoop(Append(tasks, Task(image_path, size, quality, Head(formats), o)),
                    image_path, size, quality, Tail(formats), o)

RECURSIVE QualityLoop(_, _, _, _, _, _)
\* for quality in qualities: ...
QualityLoop(tasks, image_path, size, qualities, formats, o) ==
    IF qualities = <<>> THEN tasks
    ELSE QualityLoop(FormatLoop(tasks, image_path, size, Head(qualities), formats, o),
                     image_path, size, Tail(qualities), formats, o)

RECURSIVE SizeLoop(_, _, _, _, _, _)
\* for size in sizes: ...
SizeLoop(tasks, image_path, sizes, qualities, formats, o) ==
    IF sizes = <<>> THEN tasks
    ELSE SizeLoop(QualityLoop(tasks, image_path, Head(sizes), qualities, formats, o),
                  image_path, Tail(sizes), qualities, formats, o)

\* a broken process: the empty lists are not replaced by the defaults
processNoDefaults(image_path, o) ==
    SizeLoop(<<>>, image_path, o.sizes, o.qualities, o.formats, o)

\* a broken process: formats is the middle loop, qualities the inner one
processSwapped(image_path, o) ==
    LET sizes == IF o.sizes = <<>> THEN <<"x720">> ELSE o.sizes
        qualities == IF o.qualities = <<>> THEN <<100>> ELSE o.qualities
        formats == IF o.formats = <<>> THEN <<None>> ELSE o.formats
        nq == Len(qualities)
        nf == Len(formats)
    IN  [n \in 1..(Len(sizes) * nq * nf) |->
            Task(image_path,
                 sizes[((n - 1) \div (nq * nf)) + 1],
                 qualities[((n - 1) % nq) + 1],
                 formats[(((n - 1) \div nq) % nf) + 1], o)]

\* process(image_path, **o): o carries sizes, qualities, formats and the
\* shared options
process(image_path, o) ==
    LET sizes == IF o.sizes = <<>> THEN <<"x720">> ELSE o.sizes
        qualities == IF o.qualities = <<>> THEN <<100>> ELSE o.qualities
        formats == IF o.formats = <<>> THEN <<None>> ELSE o.formats
    IN  SizeLoop(<<>>, image_path, sizes, qualities, formats, o)

-----------------------------------------------------------------------------
(* safe_filename: output path selection *)

RECURSIVE SafeFilenameLoop(_, _, _, _, _, _)
\* while out_path.exists(): out_path = ..._v{counter}...; counter += 1
SafeFilenameLoop(out_path, counter, base, suffix, ext, folder) ==
    IF PathExists(out_path)
    THEN SafeFilenameLoop(
             Path(folder, base \o suffix \o "_v" \o ToString(counter) \o ext),
             counter + 1, base, suffix, ext, folder)
    ELSE out_path

\* a broken safe_filename: _v1 is taken without looking whether it exists
safe_filenameNoLoop(base, suffix, ext, folder) ==
    IF PathExists(Path(folder, base \o suffix \o ext))
    THEN Path(folder, base \o suffix \o "_v1" \o ext)
    ELSE Path(folder, base \o suffix \o ext)

safe_filename(base, suffix, ext, folder) ==
    SafeFilenameLoop(Path(folder, base \o suffix \o ext), 1,
                     base, suffix, ext, folder)

-----------------------------------------------------------------------------
(* The threads that run execute_task, and the idle state of the dispatcher *)

\* a pool one worker too wide
MaxWorkersFive == 4 + 1

\* max_workers of the batch ThreadPoolExecutor
MaxWorkers == 4

\* thread 0 is the main thread (clipboard mode) or the listener thread
\* (watch mode); 1..MaxWorkers are the pool's workers
Workers == 1..MaxWorkers
Threads == {0} \cup Workers

IdleThread == [task |-> 0, outfile |-> Path("", "")]
IdleHandler == [pc |-> "idle", path |-> Path("", ""), wake |-> 0]
NoConfig == [mode |-> "none"]

InitPool ==
    /\ all_tasks = <<>>
    /\ next_task = 1
    /\ threads = [t \in Threads |-> IdleThread]
    /\ outcome = <<>>
    /\ runs = <<>>
    /\ console = <<>>

InitWatch ==
    /\ observer = "none"
    /\ handler = IdleHandler
    /\ event_queue = <<>>
    /\ last_processed = [p \in {} |-> 0]
    /\ handled = <<>>
    /\ now = 0

-----------------------------------------------------------------------------
(* SpecExpand: process applied to bounded inputs *)

SeqsUpTo(S, n) == UNION {[1..k -> S] : k \in 0..n}

SharedOptions ==
    { [pad |-> FALSE, pad_color |-> "black", force |-> FALSE, crop |-> FALSE,
       strip |-> FALSE, watermark |-> None, gravity |-> "SouthEast"],
      [pad |-> TRUE, pad_color |-> "white", force |-> TRUE, crop |-> TRUE,
       strip |-> TRUE, watermark |-> "logo.png", gravity |-> "NorthWest"] }

\* the keyword arguments of process: proc_options of main()
Options(sizes, qualities, formats, shared) ==
    [sizes |-> sizes, qualities |-> qualities, formats |-> formats,
     pad |-> shared.pad, pad_color |-> shared.pad_color, force |-> shared.force,
     crop |-> shared.crop, strip |-> shared.strip,
     watermark |-> shared.watermark, gravity |-> shared.gravity]

ExpandCalls ==
    { [fn |-> "process", image_path |-> Path(".", "photo.jpg"),
       o |-> Options(s, q, f, sh)] :
        s \in SeqsUpTo({"720p", "x1080"}, MaxLen),
        q \in SeqsUpTo({80, 100}, MaxLen),
        f \in SeqsUpTo({"png", "jpg"}, MaxLen),
        sh \in SharedOptions }

InitExpand ==
    /\ call \in ExpandCalls
    /\ ret = <<>>
    /\ pc = "idle" /\ config = NoConfig /\ fs = {} /\ log_file = <<>>
    /\ InitPool /\ InitWatch

CallProcess ==
    /\ call.fn = "process"
    /\ ret = <<>>
    /\ ret' = <<[fs |-> fs, value |-> process(call.image_path, call.o)]>>
    /\ UNCHANGED <<call, dispatchVars>>

NextExpand == CallProcess

SpecExpand == InitExpand /\ [][NextExpand]_vars

\* the number of iterations of a loop of process over list x
Count(x) == IF x = <<>> THEN 1 ELSE Len(x)

\* C1 (as amended): process returns |sizes| x |qualities| x |formats| Jobs
\* when the three lists are non-empty; an empty list is first replaced by
\* its one-element default, so the count is the product with every empty
\* list counted as 1 and the returned list is never empty.
C1_ExpanderSizeWithDefaults ==
    \A i \in DOMAIN ret :
        call.fn = "process" =>
            /\ Len(ret[i].value) =
                   Count(call.o.sizes) * Count(call.o.qualities) * Count(call.o.formats)
            /\ ret[i].value # <<>>

\* C1 as stated: the count is the plain product, and the list is empty iff
\* one of the three lists is empty.
C1_ExpanderSizeAsStated ==
    \A i \in DOMAIN ret :
        call.fn = "process" =>
            /\ Len(ret[i].value) =
                   Len(call.o.sizes) * Len(call.o.qualities) * Len(call.o.formats)
            /\ (ret[i].value = <<>>) <=>
                   (call.o.sizes = <<>> \/ call.o.qualities = <<>> \/ call.o.formats = <<>>)

C1_Witness ==
    /\ call.fn = "process"
    /\ ret # <<>>
    /\ call.o.sizes = <<>>
    /\ Len(call.o.qualities) = 2
    /\ Len(call.o.formats) = 2
    /\ Len(ret[1].value) = 4

\* C2: for non-empty sizes S, qualities Q and formats F the Job at index
\* i*|Q|*|F| + j*|F| + k (counted from 0) carries (S[i], Q[j], F[k]), the
\* input file and the shared fields of the configuration, and there are no
\* other Jobs.
C2_CartesianOrder ==
    \A r \in DOMAIN ret :
        (/\ call.fn = "process"
         /\ call.o.sizes # <<>> /\ call.o.qualities # <<>> /\ call.o.formats # <<>>)
        =>
        LET S == call.o.sizes
            Q == call.o.qualities
            F == call.o.formats
            jobs == ret[r].value
        IN  /\ Len(jobs) = Len(S) * Len(Q) * Len(F)
            /\ \A i \in 0..(Len(S) - 1), j \in 0..(Len(Q) - 1), k \in 0..(Len(F) - 1) :
                LET t == jobs[i * Len(Q) * Len(F) + j * Len(F) + k + 1]
                IN  /\ t.resize = S[i + 1]
                    /\ t.quality = Q[j + 1]
                    /\ t.fmt = F[k + 1]
                    /\ t.image_path = call.image_path
                    /\ t.pad_mode = call.o.pad
                    /\ t.pad_color = call.o.pad_color
                    /\ t.force = call.o.force
                    /\ t.crop = call.o.crop
                    /\ t.strip = call.o.strip
                    /\ t.watermark = call.o.watermark
                    /\ t.gravity = call.o.gravity

\* sizes 720p, x1080 with qualities 80, 100 and one format: four Jobs, the
\* second one still of the first size
C2_Witness ==
    /\ call.fn = "process"
    /\ ret # <<>>
    /\ call.o.sizes = <<"720p", "x1080">>
    /\ call.o.qualities = <<80, 100>>
    /\ call.o.formats = <<"png">>
    /\ Len(ret[1].value) = 4
    /\ ret[1].value[2].resize = "720p" /\ ret[1].value[2].quality = 100
    /\ ret[1].value[3].resize = "x1080" /\ ret[1].value[3].quality = 80

-----------------------------------------------------------------------------
(* SpecPath: safe_filename against bounded filesystem states *)

PathCalls ==
    { [fn |-> "safe_filename", base |-> b, suffix |-> "_x720", ext |-> e,
       folder |-> d] :
        b \in {"photo", "photo_x720"}, e \in {".jpg", ".png"},
        d \in {"output", "."} }

\* the candidate path of a call, and its _vN variants
Candidate(c) == Path(c.folder, c.base \o c.suffix \o c.ext)
Versioned(c, n) == Path(c.folder, c.base \o c.suffix \o "_v" \o ToString(n) \o c.ext)

InitPath ==
    /\ call \in PathCalls
    /\ ret = <<>>
    /\ fs \in SUBSET ({Candidate(call), Path(call.folder, "other.jpg")}
                        \cup {Versioned(call, n) : n \in 1..MaxVersion})
    /\ pc = "idle" /\ config = NoConfig /\ log_file = <<>>
    /\ InitPool /\ InitWatch

CallSafeFilename ==
    /\ call.fn = "safe_filename"
    /\ Len(ret) < MaxCalls
    /\ ret' = Append(ret, [fs |-> fs,
                           value |-> safe_filename(call.base, call.suffix,
                                                   call.ext, call.folder)])
    /\ UNCHANGED <<call, dispatchVars>>

\* the engine writes the output file at the path last selected
EngineWritesOutput ==
    /\ call.fn = "safe_filename"
    /\ ret # <<>>
    /\ ret[Len(ret)].value \notin fs
    /\ fs' = fs \cup {ret[Len(ret)].value}
    /\ UNCHANGED <<pureVars, pc, config, log_file, poolVars, watchVars>>

NextPath == CallSafeFilename \/ EngineWritesOutput

SpecPath == InitPath /\ [][NextPath]_vars

\* C3: safe_filename returns the candidate base+suffix+ext when it does not
\* exist, otherwise base+suffix+_vN+ext for the smallest N >= 1 that does
\* not exist; the returned path does not exist when it is selected, and two
\* calls that see the same filesystem return the same path.
C3_SafeFilename ==
    /\ \A i \in DOMAIN ret :
        call.fn = "safe_filename" =>
            LET r == ret[i]
            IN  /\ r.value \notin r.fs
                /\ Candidate(call) \notin r.fs => r.value = Candidate(call)
                /\ Candidate(call) \in r.fs =>
                       \E n \in 1..(Cardinality(r.fs) + 1) :
                           /\ r.value = Versioned(call, n)
                           /\ \A m \in 1..(n - 1) : Versioned(call, m) \in r.fs
    /\ \A i, j \in DOMAIN ret :
        (call.fn = "safe_filename" /\ ret[i].fs = ret[j].fs) =>
            ret[i].value = ret[j].value

\* the candidate and _v1 both exist and _v2 is selected; an earlier call,
\* before the engine wrote _v1, had selected _v1
C3_Witness ==
    /\ call.fn = "safe_filename"
    /\ Len(ret) = 2
    /\ ret[1].fs = {Candidate(call)}
    /\ ret[1].value = Versioned(call, 1)
    /\ ret[2].fs = {Candidate(call), Versioned(call, 1)}
    /\ ret[2].value = Versioned(call, 2)

-----------------------------------------------------------------------------
(* MagickProcessor.execute_task, up to the engine invocation *)

SUPPORTED_EXTS == {".jpg", ".jpeg", ".png", ".webp", ".bmp", ".tiff", ".gif", ".ico"}

\* Python truth of an Optional[str]
Truthy(x) == x # None /\ x # ""

\* resize_str: the preset table, then the stretch marker
ResizeStr(task) ==
    LET resize_str == PresetsGet(Lower(task.resize), task.resize)
    IN  IF task.force /\ ~EndsWith(resize_str, "!") /\ ~task.crop
        THEN resize_str \o "!"
        ELSE resize_str

\* suffix: the output filename suffix
Suffix(task) ==
    "_" \o ResizeStr(task)
        \o (IF task.quality # 100 THEN "_Q" \o ToString(task.quality) ELSE "")
        \o (IF task.pad_mode THEN "_pad" ELSE "")
        \o (IF task.crop THEN "_crop" ELSE "")
        \o (IF task.strip THEN "_clean" ELSE "")
        \o (IF Truthy(task.watermark) THEN "_wm" ELSE "")

\* ext: the requested format, else the input's extension
Ext(task) ==
    IF Truthy(task.fmt) THEN "." \o task.fmt ELSE PathSuffix(task.image_path)

\* target_folder
TargetFolder(task) ==
    IF config.output_folder = "__INPUT__"
    THEN task.image_path.parent
    ELSE config.output_folder

\* outfile = safe_filename(path.stem, suffix, ext, target_folder)
Outfile(task) ==
    safe_filename(PathStem(task.image_path), Suffix(task), Ext(task),
                  TargetFolder(task))

-----------------------------------------------------------------------------
(* Spec: main() and its three dispatch modes *)

\* longest list of input files of a batch run
MaxImages == 5
\* longest list of input files of a batch run that writes the audit log
MaxLogged == 1
\* file-creation events of a run in any mode
MaxEvents == 1
\* file-creation events of a watch run
MaxWatchEvents == 3
\* last tick of the clock
MaxTime == 5

\* ticks per second, the 2 s debounce window and the 0.5 s settle delay
TicksPerSecond == 2
DebounceTicks == 2 * TicksPerSecond
SettleTicks == 1

InputFile(i) == Path(".", "img" \o ToString(i) \o ".jpg")
temp_path == Path(".", "clipboard_temp.png")

\* the files that appear in the watched directory
WatchedFiles == {InputFile(1), InputFile(2)}

\* a record of the audit log left by an earlier run
OldRecord == [input |-> "old.jpg", output |-> "old_x720.jpg",
              resize |-> "x720", quality |-> 100]

DefaultShared ==
    [pad |-> FALSE, pad_color |-> "black", force |-> FALSE, crop |-> FALSE,
     strip |-> FALSE, watermark |-> None, gravity |-> "SouthEast"]

\* a configuration as parse_arguments returns it
Config(mode, images, sizes, log_enabled) ==
    [watch |-> mode = "watch", clipboard |-> mode = "clipboard",
     images |-> images, output_folder |-> "output",
     log_enabled |-> log_enabled,
     o |-> Options(sizes, <<100>>, <<None>>, DefaultShared)]

BatchConfigs ==
    { Config("batch", [i \in 1..k |-> InputFile(i)], <<"x720">>, FALSE) :
        k \in 1..MaxImages }
    \cup
    { Config("batch", [i \in 1..k |-> InputFile(i)], <<"720p", "x1080">>, TRUE) :
        k \in 1..MaxLogged }

WatchConfigs ==
    { Config("watch", <<>>, <<"x720">>, TRUE) }

ClipboardConfigs ==
    { Config("clipboard", <<>>, s, l) :
        s \in {<<"x720">>, <<"720p", "x1080">>}, l \in BOOLEAN }

\* the configurations parse_arguments is taken to return for a command
\* line that asks for the given mode
ParsedConfigs(mode) ==
    CASE mode = "batch" -> BatchConfigs
      [] mode = "watch" -> WatchConfigs
      [] mode = "clipboard" -> ClipboardConfigs

Modes == {"batch", "watch", "clipboard"}

\* the state main() starts in: call.mode is the mode sys.argv asks for and
\* call.events the number of file creations the watched directory will see
InitMain(mode, events) ==
    /\ call = [fn |-> "main", mode |-> mode, events |-> events]
    /\ ret = <<>>
    /\ pc = "start"
    /\ config = NoConfig
    /\ fs = {}
    /\ log_file = <<OldRecord>>
    /\ InitPool /\ InitWatch

\* config = parse_arguments(); processor = MagickProcessor(...)
Main_Parse ==
    /\ pc = "start"
    /\ config' \in ParsedConfigs(call.mode)
    /\ fs' = {config'.images[i] : i \in DOMAIN config'.images}
    /\ pc' = "dispatch"
    /\ UNCHANGED <<pureVars, poolVars, watchVars>>

\* the expanded Jobs join the list; none has run yet
Enqueue(tasks) ==
    /\ all_tasks' = all_tasks \o tasks
    /\ outcome' = outcome \o [i \in 1..Len(tasks) |-> "queued"]
    /\ runs' = runs \o [i \in 1..Len(tasks) |-> 0]
    /\ console' = console \o [i \in 1..Len(tasks) |-> <<>>]

RECURSIVE ExpandAll(_, _)
\* for img in images: all_tasks.extend(processor.process(img, **proc_options))
ExpandAll(images, o) ==
    IF images = <<>> THEN <<>>
    ELSE process(Head(images), o) \o ExpandAll(Tail(images), o)

\* Mode 3: the input files that exist are expanded and handed to the pool
Main_Batch ==
    /\ pc = "dispatch"
    /\ ~config.watch /\ ~config.clipboard
    /\ LET images == SelectSeq(config.images, PathExists)
       IN  IF images = <<>>
           THEN /\ pc' = "done"
                /\ UNCHANGED <<all_tasks, outcome, runs, console>>
           ELSE /\ pc' = "pool"
                /\ Enqueue(ExpandAll(images, config.o))
    /\ UNCHANGED <<pureVars, config, fs, next_task, threads, log_file, watchVars>>

\* leaving the with block: shutdown(wait=True), then "All done!"
Main_Join ==
    /\ pc = "pool"
    /\ next_task > Len(all_tasks)
    /\ \A w \in Workers : threads[w].task = 0
    /\ pc' = "done"
    /\ UNCHANGED <<pureVars, config, fs, poolVars, watchVars>>

\* which thread may take the next Job; the workers of the pool are
\* interchangeable, and the idle one with the lowest number stands for them
CanTake(t) ==
    \/ /\ pc = "pool" /\ t \in Workers
       /\ \A w \in Workers : w < t => threads[w].task # 0
    \/ pc = "clipboard" /\ t = 0
    \/ pc \in {"watching", "stopping"} /\ observer = "running"
         /\ handler.pc = "tasks" /\ t = 0

\* execute_task from its entry to the engine invocation: a missing input is
\* reported and the call returns, otherwise the output path is selected
Task_Begin(t) ==
    /\ CanTake(t)
    /\ threads[t].task = 0
    /\ next_task <= Len(all_tasks)
    /\ LET j == next_task
           task == all_tasks[j]
       IN  /\ next_task' = j + 1
           /\ runs' = [runs EXCEPT ![j] = @ + 1]
           /\ IF ~PathExists(task.image_path)
              THEN /\ console' = [console EXCEPT ![j] = Append(@, "error")]
                   /\ outcome' = [outcome EXCEPT ![j] = "missing"]
                   /\ UNCHANGED threads
              ELSE /\ threads' = [threads EXCEPT ![t] =
                                     [task |-> j, outfile |-> Outfile(task)]]
                   /\ outcome' = [outcome EXCEPT ![j] = "running"]
                   /\ UNCHANGED console
    /\ UNCHANGED <<pureVars, pc, config, fs, all_tasks, log_file, watchVars>>

\* the line _log_to_file writes
LogRecord(task, outfile) ==
    [input |-> task.image_path.name, output |-> outfile.name,
     resize |-> ResizeStr(task), quality |-> task.quality]

\* what the engine invocation can do: exit 0, exit non-zero
\* (CalledProcessError), or not run at all (subprocess.run raises OSError)
EngineResults == {"ok", "nonzero", "oserror"}

\* a broken pool: an exception in one worker ends the whole run
PropagateEndsRun(t) ==
    /\ pc' = "crashed"
    /\ UNCHANGED <<observer, handler>>

\* an exception that execute_task does not catch leaves through its caller
Propagate(t) ==
    IF t \in Workers
    THEN \* the pool keeps it in the Job's future, which nobody reads
         UNCHANGED <<pc, observer, handler>>
    ELSE IF pc = "clipboard"
    THEN \* main() ends with a traceback
         /\ pc' = "crashed"
         /\ UNCHANGED <<observer, handler>>
    ELSE \* on_created raises into the listener thread, which ends
         /\ observer' = "dead"
         /\ handler' = [handler EXCEPT !.pc = "raised"]
         /\ UNCHANGED pc

\* a broken _log_to_file: the log is opened for writing, not for appending
LogToFileTruncating(j, task, outfile) ==
    /\ log_file' = IF config.log_enabled
                   THEN <<LogRecord(task, outfile)>>
                   ELSE log_file
    /\ console' = [console EXCEPT ![j] = Append(@, "success")]

\* _log_to_file: nothing when logging is off; a write that fails is
\* reported by a plain print and otherwise ignored
LogToFile(j, task, outfile) ==
    IF ~config.log_enabled
    THEN /\ UNCHANGED log_file
         /\ console' = [console EXCEPT ![j] = Append(@, "success")]
    ELSE \E written \in BOOLEAN :
           IF written
           THEN /\ log_file' = Append(log_file, LogRecord(task, outfile))
                /\ console' = [console EXCEPT ![j] = Append(@, "success")]
           ELSE /\ UNCHANGED log_file
                /\ console' = [console EXCEPT ![j] =
                                  @ \o <<"success", "logging failed">>]

\* file-creation events that the outputs of the Jobs add to a watch run
MaxEchoEvents == 2

\* the events whose file was written by a Job
Echoes(events) ==
    Cardinality({i \in DOMAIN events : events[i].path \notin WatchedFiles})

\* the engine has created the file p; while the listener runs, a creation
\* in the watched working directory is reported to it like any other
EngineCreates(p) ==
    /\ fs' = fs \cup {p}
    /\ event_queue' =
           IF /\ observer = "running" /\ p.parent = "." /\ p \notin fs
              /\ Echoes(handled) + Echoes(event_queue) < MaxEchoEvents
           THEN Append(event_queue, [path |-> p, at |-> now])
           ELSE event_queue

\* execute_task from the engine invocation to its return
Task_End(t) ==
    /\ threads[t].task # 0
    /\ \E r \in EngineResults :
        LET j == threads[t].task
            task == all_tasks[j]
            outfile == threads[t].outfile
        IN  \/ /\ r = "ok"
               /\ EngineCreates(outfile)
               /\ outcome' = [outcome EXCEPT ![j] = "success"]
               /\ LogToFile(j, task, outfile)
               /\ UNCHANGED <<pc, observer, handler>>
            \/ /\ r = "nonzero"
               /\ outcome' = [outcome EXCEPT ![j] = "nonzero"]
               /\ console' = [console EXCEPT ![j] = Append(@, "error")]
               /\ UNCHANGED <<fs, event_queue, log_file, pc, observer, handler>>
            \/ /\ r = "oserror"
               /\ outcome' = [outcome EXCEPT ![j] = "raised"]
               /\ Propagate(t)
               /\ UNCHANGED <<fs, event_queue, log_file, console>>
    /\ threads' = [threads EXCEPT ![t] = IdleThread]
    /\ UNCHANGED <<pureVars, config, all_tasks, next_task, runs,
                   last_processed, handled, now>>

\* an input file is removed by someone else while the tool runs
FileVanishes(p) ==
    /\ pc \in {"dispatch", "pool", "clipboard", "watching"}
    /\ p \in fs
    /\ p \in {InputFile(1), temp_path}
    /\ fs' = fs \ {p}
    /\ UNCHANGED <<pureVars, pc, config, poolVars, watchVars>>

-----------------------------------------------------------------------------
(* Mode 2: clipboard *)

\* grabclipboard(): with an image, it is saved to the temporary file and
\* expanded; without one the run ends with a warning
Main_Clipboard ==
    /\ pc = "dispatch"
    /\ ~config.watch /\ config.clipboard
    /\ \E found \in BOOLEAN :
        IF found
        THEN /\ fs' = fs \cup {temp_path}
             /\ Enqueue(process(temp_path, config.o))
             /\ pc' = "clipboard"
        ELSE /\ pc' = "done"
             /\ UNCHANGED <<fs, all_tasks, outcome, runs, console>>
    /\ UNCHANGED <<pureVars, config, next_task, threads, log_file, watchVars>>

\* after the loop over the Jobs: if temp_path.exists(): temp_path.unlink()
Main_ClipboardCleanup ==
    /\ pc = "clipboard"
    /\ next_task > Len(all_tasks)
    /\ threads[0].task = 0
    /\ fs' = fs \ {temp_path}
    /\ pc' = "done"
    /\ UNCHANGED <<pureVars, config, poolVars, watchVars>>

-----------------------------------------------------------------------------
(* Mode 1: watch *)

\* observer.start(): the listener thread delivers events to the handler
Main_Watch ==
    /\ pc = "dispatch"
    /\ config.watch
    /\ observer' = "running"
    /\ pc' = "watching"
    /\ UNCHANGED <<pureVars, config, fs, poolVars, handler, event_queue,
                   last_processed, handled, now>>

\* a file is created in the watched directory (or reported created again)
FileCreated(p) ==
    /\ pc = "watching"
    /\ Len(handled) + Len(event_queue) < call.events
    /\ fs' = fs \cup {p}
    /\ event_queue' = Append(event_queue, [path |-> p, at |-> now])
    /\ UNCHANGED <<pureVars, pc, config, poolVars, observer, handler,
                   last_processed, handled, now>>

\* the listener thread is blocked: no event to deliver, asleep in
\* time.sleep(0.5), or waiting for the engine to exit
ListenerWaits ==
    \/ handler.pc = "idle" /\ event_queue = <<>>
    \/ handler.pc = "settle" /\ now < handler.wake
    \/ handler.pc = "tasks" /\ threads[0].task # 0
    \/ observer # "running"

\* half a second passes; the steps of the listener between two waits take
\* no time
Tick ==
    /\ pc = "watching"
    /\ ListenerWaits
    /\ now < MaxTime
    /\ now' = now + 1
    /\ UNCHANGED <<pureVars, pc, config, fs, poolVars, observer, handler,
                   event_queue, last_processed, handled>>

\* the debounce test of on_created
Debounced(path) ==
    /\ path \in DOMAIN last_processed
    /\ now - last_processed[path] < DebounceTicks

\* on_created from its entry to time.sleep(0.5): the listener delivers the
\* next event; an unsupported or debounced path returns at once
Handler_OnCreated ==
    /\ pc = "watching"
    /\ observer = "running"
    /\ handler.pc = "idle"
    /\ event_queue # <<>>
    /\ LET event == Head(event_queue)
           path == event.path
       IN  /\ event_queue' = Tail(event_queue)
           /\ IF Lower(PathSuffix(path)) \notin SUPPORTED_EXTS
              THEN /\ handled' = Append(handled, event @@ [did |-> "unsupported"])
                   /\ UNCHANGED handler
              ELSE IF Debounced(path)
              THEN /\ handled' = Append(handled, event @@ [did |-> "debounced"])
                   /\ UNCHANGED handler
              ELSE /\ handled' = Append(handled, event @@ [did |-> "processed"])
                   /\ handler' = [pc |-> "settle", path |-> path,
                                  wake |-> now + SettleTicks]
    /\ UNCHANGED <<pureVars, pc, config, fs, poolVars, observer,
                   last_processed, now>>

\* after the sleep: tasks = self.processor.process(path, **self.options)
Handler_Expand ==
    /\ observer = "running"
    /\ handler.pc = "settle"
    /\ now >= handler.wake
    /\ Enqueue(process(handler.path, config.o))
    /\ handler' = [handler EXCEPT !.pc = "tasks"]
    /\ UNCHANGED <<pureVars, pc, config, fs, next_task, threads, log_file,
                   observer, event_queue, last_processed, handled, now>>

\* after the loop over the Jobs: self.last_processed[path] = time.time()
Handler_Return ==
    /\ observer = "running"
    /\ handler.pc = "tasks"
    /\ next_task > Len(all_tasks)
    /\ threads[0].task = 0
    /\ last_processed' =
           [p \in DOMAIN last_processed \cup {handler.path} |->
               IF p = handler.path THEN now ELSE last_processed[p]]
    /\ handler' = IdleHandler
    /\ UNCHANGED <<pureVars, pc, config, fs, poolVars, observer,
                   event_queue, handled, now>>

\* Ctrl+C in the main thread: observer.stop()
Main_Interrupt ==
    /\ pc = "watching"
    /\ pc' = "stopping"
    /\ UNCHANGED <<pureVars, config, fs, poolVars, watchVars>>

\* observer.join(): returns once the listener thread has ended
Main_ObserverJoin ==
    /\ pc = "stopping"
    /\ observer = "dead" \/ handler.pc = "idle"
    /\ pc' = "done"
    /\ observer' = IF observer = "dead" THEN "dead" ELSE "stopped"
    /\ UNCHANGED <<pureVars, config, fs, poolVars, handler, event_queue,
                   last_processed, handled, now>>

-----------------------------------------------------------------------------

Init == \E mode \in Modes : InitMain(mode, MaxEvents)

Next ==
    \/ Main_Parse
    \/ Main_Batch
    \/ Main_Join
    \/ Main_Clipboard
    \/ Main_ClipboardCleanup
    \/ Main_Watch
    \/ Main_Interrupt
    \/ Main_ObserverJoin
    \/ Handler_OnCreated
    \/ Handler_Expand
    \/ Handler_Return
    \/ Tick
    \/ \E t \in Threads : Task_Begin(t)
    \/ \E t \in Threads : Task_End(t)
    \/ \E p \in WatchedFiles : FileCreated(p)
    \/ \E p \in fs : FileVanishes(p)

\* a run in any of the three modes
Spec == Init /\ [][Next]_vars

InitBatch == InitMain("batch", 0)

NextBatch ==
    \/ Main_Parse
    \/ Main_Batch
    \/ Main_Join
    \/ \E w \in Workers : Task_Begin(w)
    \/ \E w \in Workers : Task_End(w)
    \/ \E p \in fs : FileVanishes(p)

\* a batch run
SpecBatch == InitBatch /\ [][NextBatch]_vars

\* a batch run in which main() and every worker keep running and every
\* engine invocation ends
FairBatch ==
    /\ SpecBatch
    /\ WF_vars(Main_Parse) /\ WF_vars(Main_Batch) /\ WF_vars(Main_Join)
    /\ \A w \in Workers : WF_vars(Task_Begin(w)) /\ WF_vars(Task_End(w))

InitClipboard == InitMain("clipboard", 0)

NextClipboard ==
    \/ Main_Parse
    \/ Main_Clipboard
    \/ Main_ClipboardCleanup
    \/ Task_Begin(0)
    \/ Task_End(0)
    \/ \E p \in fs : FileVanishes(p)

\* a clipboard run
SpecClipboard == InitClipboard /\ [][NextClipboard]_vars

InitWatchMode == InitMain("watch", MaxWatchEvents)

NextWatch ==
    \/ Main_Parse
    \/ Main_Watch
    \/ Main_Interrupt
    \/ Main_ObserverJoin
    \/ Handler_OnCreated
    \/ Handler_Expand
    \/ Handler_Return
    \/ Tick
    \/ Task_Begin(0)
    \/ Task_End(0)
    \/ \E p \in WatchedFiles : FileCreated(p)
    \/ \E p \in fs : FileVanishes(p)

\* a watch run
SpecWatch == InitWatchMode /\ [][NextWatch]_vars

-----------------------------------------------------------------------------
(* The dispatch layer: properties *)

\* the Jobs inside execute_task, between output path selection and the
\* return of the engine
Running == {j \in DOMAIN outcome : outcome[j] = "running"}

Started(o) == \E j \in DOMAIN o : o[j] # "queued"

Failures == {"missing", "nonzero", "raised"}
Finished == Failures \cup {"success"}

\* how many lines of one kind the console holds for a Job
Lines(j, kind) == Cardinality({i \in DOMAIN console[j] : console[j][i] = kind})

\* C4: in batch mode at most 4 Jobs are in execution at any time, a queued
\* Job starts only while fewer than 4 are in execution, and once any Job
\* has started the configuration and the list of Jobs no longer change
\* (parsing, defaulting and expansion are complete; main() is at the pool).
C4_BoundedPool ==
    /\ [](Cardinality(Running) <= 4)
    /\ [](Started(outcome) => pc \in {"pool", "done"})
    /\ [][Started(outcome') => (all_tasks' = all_tasks /\ config' = config)]_vars
    /\ [][(\E j \in DOMAIN outcome : outcome[j] = "queued" /\ outcome'[j] # "queued")
            => Cardinality(Running) < 4]_vars

\* four Jobs in execution while a fifth waits in the queue
C4_Witness ==
    /\ pc = "pool"
    /\ Cardinality(Running) = 4
    /\ next_task <= Len(all_tasks)
    /\ outcome[next_task] = "queued"

\* C5: in a fair batch run every Job is executed exactly once, whatever
\* happens to the other Jobs, and the run reports completion, which it does
\* only when every Job has run once and has its outcome.
C5_EveryJobOnce ==
    /\ [](\A j \in DOMAIN runs : runs[j] <= 1)
    /\ [](pc = "done" =>
            \A j \in DOMAIN all_tasks : runs[j] = 1 /\ outcome[j] \in Finished)
    /\ [](pc # "crashed")
    /\ <>(pc = "done")

\* the run is complete, the first Job raised, a later one failed with a
\* non-zero exit and the last of at least five succeeded
C5_Witness ==
    /\ pc = "done"
    /\ Len(all_tasks) >= 5
    /\ outcome[1] = "raised"
    /\ outcome[2] = "nonzero"
    /\ outcome[Len(all_tasks)] = "success"
    /\ \A j \in DOMAIN all_tasks : runs[j] = 1

\* C6 as stated: every Job that failed in a batch worker, whatever the
\* failure, has exactly one failure line on the console.
C6_EveryFailureReported ==
    \A j \in DOMAIN outcome :
        outcome[j] \in Failures => Lines(j, "error") = 1

\* the Jobs whose success reached the audit log
Logged ==
    {j \in DOMAIN outcome :
        /\ outcome[j] = "success"
        /\ config.log_enabled
        /\ Lines(j, "logging failed") = 0}

\* C7 (as amended): with logging enabled the audit log receives exactly one
\* record per successful Job whose log write did not fail; with logging
\* disabled (the default) or a failing write it receives none. A record is
\* appended only in the step in which a Job succeeds and it is that Job's
\* record; a failed Job appends nothing, and the records already in the log
\* are never changed or removed.
C7_AuditLogAppendOnly ==
    /\ [](Len(log_file) = Len(<<OldRecord>>) + Cardinality(Logged))
    /\ [](log_file[1] = OldRecord)
    /\ [][log_file' # log_file =>
            \E j \in DOMAIN outcome :
                /\ outcome[j] = "running" /\ outcome'[j] = "success"
                /\ Len(log_file') = Len(log_file) + 1
                /\ SubSeq(log_file', 1, Len(log_file)) = log_file
                /\ log_file'[Len(log_file')].input = all_tasks[j].image_path.name
                /\ log_file'[Len(log_file')].quality = all_tasks[j].quality]_vars

\* C7 as stated: when a run has ended, the log has grown by one record per
\* successful Job.
C7_OneRecordPerSuccess ==
    pc \in {"done", "crashed"} =>
        Len(log_file) =
            Len(<<OldRecord>>)
            + Cardinality({j \in DOMAIN outcome : outcome[j] = "success"})

\* a run with logging on has ended: one Job succeeded and its record follows
\* the old one, another Job failed and left none
C7_Witness ==
    /\ pc = "done"
    /\ config.log_enabled
    /\ Len(log_file) = 2
    /\ log_file[1] = OldRecord
    /\ \E j, k \in DOMAIN outcome :
        /\ outcome[j] = "success" /\ Lines(j, "logging failed") = 0
        /\ outcome[k] = "nonzero"

\* C8 as stated: a creation event for a path that occurs less than the
\* debounce window after an earlier creation event for the same path that
\* was processed is not processed.
C8_DebouncePerPath ==
    \A i, j \in DOMAIN handled :
        (/\ i < j
         /\ handled[i].path = handled[j].path
         /\ handled[i].did = "processed"
         /\ handled[j].at - handled[i].at < DebounceTicks)
        => handled[j].did # "processed"

\* C9 as stated: while main() is in its watch loop the listener is running,
\* whatever failed in the handler.
C9_ListenerSurvives ==
    (pc = "watching" /\ \E j \in DOMAIN outcome : outcome[j] \in Failures)
        => observer = "running"

\* C10 as stated: when a clipboard run that saved the temporary file has
\* ended, the temporary file does not exist.
C10_TempFileRemoved ==
    (call.mode = "clipboard" /\ pc \in {"done", "crashed"} /\ all_tasks # <<>>)
        => temp_path \notin fs

-----------------------------------------------------------------------------
(* More Python string operations, used by the argument parser *)

DigitChars == "0123456789"

\* str.isdigit, on ASCII text
IsDigit(s) ==
    /\ s # ""
    /\ \A i \in 1..Len(s) : \E d \in 1..Len(DigitChars) : Char(s, i) = Char(DigitChars, d)

RECURSIVE IntAcc(_, _)
\* the digits of s read from the left, acc being the value read so far
IntAcc(acc, s) ==
    IF s = "" THEN acc
    ELSE LET d == CHOOSE v \in 0..9 : Char(DigitChars, v + 1) = Head(s)
         IN  IntAcc(10 * acc + d, Tail(s))

\* int(s) of a digit string
int(s) == IntAcc(0, s)

\* str.startswith
StartsWith(s, t) == Len(s) >= Len(t) /\ SubSeq(s, 1, Len(t)) = t

\* c in s, for a single character c
Contains(s, c) == \E i \in 1..Len(s) : Char(s, i) = c

RECURSIVE Remove(_, _)
\* s.replace(c, ""), for a single character c
Remove(s, c) ==
    IF s = "" THEN ""
    ELSE (IF Head(s) = c THEN "" ELSE Head(s)) \o Remove(Tail(s), c)

\* the first position of c in s, 0 when absent
IndexOf(s, c) ==
    LET I == {i \in 1..Len(s) : Char(s, i) = c}
    IN  IF I = {} THEN 0 ELSE CHOOSE i \in I : \A j \in I : i <= j

RECURSIVE Split(_, _)
\* s.split(c), for a single character c
Split(s, c) ==
    LET k == IndexOf(s, c)
    IN  IF k = 0 THEN <<s>>
        ELSE <<SubSeq(s, 1, k - 1)>> \o Split(SubSeq(s, k + 1, Len(s)), c)

\* s[1:]
DropFirst(s) == SubSeq(s, 2, Len(s))

\* s[:-1]
DropLast(s) == SubSeq(s, 1, Len(s) - 1)

Range(f) == {f[i] : i \in DOMAIN f}

-----------------------------------------------------------------------------
(* Paths given as strings, and folders *)

\* Path(s): the text after the last "/" is the name, the text before it the
\* parent, "." when there is none
PathOf(s) ==
    LET k == LastIndexOf(s, "/")
    IN  IF k = 0 THEN Path(".", s)
        ELSE Path(SubSeq(s, 1, k - 1), SubSeq(s, k + 1, Len(s)))

\* str(path)
PathStr(p) == IF p.parent = "." THEN p.name ELSE p.parent \o "/" \o p.name

\* a folder is on disk as the entry with the empty name under it
Folder(s) == Path(s, "")

\* Path(s).is_dir(); the working directory always exists
IsDir(s) == s = "." \/ Folder(s) \in fs

\* Path(s).is_file()
IsFile(s) == PathOf(s) \in fs

\* Path(s).exists()
Exists(s) == IsFile(s) \/ IsDir(s)

\* Path(s).parent as a string
ParentOf(s) == PathOf(s).parent

-----------------------------------------------------------------------------
(* Preset tables of the argument parser *)

QUALITY_PRESETS ==
    [k \in {"max", "best", "high", "medium", "med", "low"} |->
        CASE k \in {"max", "best"} -> 100
          [] k = "high" -> 90
          [] k \in {"medium", "med"} -> 75
          [] k = "low" -> 50]

SAFE_WORDS ==
    {"resize", "convert", "to", "save", "as", "format", "formats", "quality",
     "high", "medium", "med", "low", "max", "best", "crop",
     "clean", "remove", "metadata", "paste", "monitor", "stretch", "force",
     "watch", "clipboard"}

COMPOUND_GRAVITY ==
    [k \in {"north-east", "northeast", "north_east", "ne",
            "north-west", "northwest", "north_west", "nw",
            "south-east", "southeast", "south_east", "se",
            "south-west", "southwest", "south_west", "sw"} |->
        CASE k \in {"north-east", "northeast", "north_east", "ne"} -> "NorthEast"
          [] k \in {"north-west", "northwest", "north_west", "nw"} -> "NorthWest"
          [] k \in {"south-east", "southeast", "south_east", "se"} -> "SouthEast"
          [] k \in {"south-west", "southwest", "south_west", "sw"} -> "SouthWest"]

GRAVITY_TERMS ==
    {"top", "upper", "north", "bottom", "lower", "south",
     "left", "west", "right", "east", "center", "middle"}

\* the format whitelist of the keyword syntax
FormatWords == {"jpg", "jpeg", "png", "webp", "bmp", "ico", "tiff"}

-----------------------------------------------------------------------------
(* parse_arguments: the Token Resolver *)

\* _merge_spaced_args, from position i on
RECURSIVE MergeFrom(_, _)
MergeFrom(args, i) ==
    IF i > Len(args) THEN <<>>
    ELSE IF /\ i + 2 <= Len(args)
            /\ IsDigit(args[i])
            /\ Lower(args[i + 1]) = "x"
            /\ IsDigit(args[i + 2])
         THEN <<args[i] \o "x" \o args[i + 2]>> \o MergeFrom(args, i + 3)
         ELSE <<args[i]>> \o MergeFrom(args, i + 1)

_merge_spaced_args(args) == MergeFrom(args, 1)

\* file_config.get(key, default)
ConfigGet(file_config, key, default) ==
    IF key \in DOMAIN file_config THEN file_config[key] ELSE default

\* the config dictionary before the first token is read
InitialConfig(file_config) ==
    [sizes |-> <<>>, images |-> <<>>, qualities |-> <<>>, formats |-> <<>>,
     output_folder |-> ConfigGet(file_config, "output_folder", "output"),
     pad |-> FALSE,
     pad_color |-> ConfigGet(file_config, "pad_color", "black"),
     force |-> FALSE, crop |-> FALSE, strip |-> FALSE,
     log_enabled |-> ConfigGet(file_config, "log_enabled", FALSE),
     watch |-> FALSE, clipboard |-> FALSE,
     watermark |-> ConfigGet(file_config, "watermark", None),
     gravity |-> ConfigGet(file_config, "gravity", "SouthEast"),
     pdf_merge |-> FALSE]

\* watermark_context: the pre-scan of the whole argument list
WatermarkContext(args) ==
    \E a \in DOMAIN args : Lower(args[a]) \in {"--watermark", "-wm", "watermark", "wm"}

\* The locals of parse_arguments when its loop starts.  classes[i] names the
\* branch of the loop body that token i took, src.f[k] the token whose text
\* became config.f[k], warnings the warnings printed, exit the sys.exit taken.
ParseStart(args, file_config) ==
    [config |-> InitialConfig(file_config),
     v_align |-> "", h_align |-> "",
     gravity_override |-> FALSE,
     watermark_keyword |-> FALSE,
     skip_next |-> FALSE,
     exit |-> "",
     warnings |-> <<>>,
     classes |-> [i \in DOMAIN args |-> ""],
     src |-> [sizes |-> <<>>, images |-> <<>>, qualities |-> <<>>, formats |-> <<>>]]

\* token i took branch c
Classed(st, i, c) == [st EXCEPT !.classes[i] = c]

\* config[field].append(value), value being the text of token i
Add(st, field, value, i) ==
    [st EXCEPT !.config[field] = Append(@, value), !.src[field] = Append(@, i)]

\* config[field] = value
Set(st, field, value) == [st EXCEPT !.config[field] = value]

\* skip_next = True
SkipNext(st) == [st EXCEPT !.skip_next = TRUE]

\* print(a warning about token i)
Warn(st, kind, i) ==
    [st EXCEPT !.warnings = Append(@, [kind |-> kind, arg |-> i])]

\* Path(dir).glob("*" + ext) for every supported extension, as strings
DirImages(dir) ==
    LET F == {p \in fs : /\ p.parent = dir
                         /\ \E e \in SUPPORTED_EXTS : EndsWith(p.name, e)}
        order == CHOOSE f \in [1..Cardinality(F) -> F] : Range(f) = F
    IN  [k \in 1..Cardinality(F) |-> dir \o "/" \o order[k].name]

RECURSIVE AddAll(_, _, _, _)
AddAll(st, field, values, i) ==
    IF values = <<>> THEN st
    ELSE AddAll(Add(st, field, Head(values), i), field, Tail(values), i)

\* Images or Directories
Arg_Image(st, i, args, larg) ==
    IF IsDir(args[i])
    THEN Classed(AddAll(st, "images", DirImages(args[i]), i), i, "directory")
    ELSE Classed(Add(st, "images", args[i], i), i, "image")

\* [int(q[1:]) for q in arg.split(",")]
ShortQualities(arg) ==
    LET parts == Split(arg, ",")
    IN  [k \in DOMAIN parts |-> int(DropFirst(parts[k]))]

\* Qualities (Short syntax)
Arg_Quality(st, i, args, larg) ==
    IF StartsWith(larg, "q") /\ IsDigit(DropFirst(larg))
    THEN Classed(AddAll(st, "qualities", ShortQualities(args[i]), i), i, "quality")
    ELSE IF EndsWith(larg, "%") /\ IsDigit(DropLast(larg))
    THEN Classed(Add(st, "qualities", int(DropLast(larg)), i), i, "quality")
    ELSE Arg_Image(st, i, args, larg)

\* "x" in s and s.replace("x", "").isdigit()
IsGeometry(s) == Contains(s, "x") /\ IsDigit(Remove(s, "x"))

\* a broken size branch: an integer in [40,100] is taken as a quality
Arg_SizeQualityRange(st, i, args, larg) ==
    IF (larg \in DOMAIN PRESETS \/ IsDigit(larg) \/ IsGeometry(larg))
       /\ ~Exists(args[i])
    THEN IF IsDigit(larg)
         THEN IF 40 <= int(larg) /\ int(larg) <= 100
              THEN Classed(Add(st, "qualities", int(larg), i), i, "quality")
              ELSE Classed(Add(st, "sizes", "x" \o larg, i), i, "size")
         ELSE Classed(Add(st, "sizes", larg, i), i, "size")
    ELSE Arg_Quality(st, i, args, larg)

\* Presets / Sizes
Arg_Size(st, i, args, larg) ==
    IF (larg \in DOMAIN PRESETS \/ IsDigit(larg) \/ IsGeometry(larg))
       /\ ~Exists(args[i])
    THEN IF IsDigit(larg)
         THEN LET val == int(larg)
                  warned == IF 40 <= val /\ val <= 100
                            THEN Warn(st, "ambiguous size", i) ELSE st
              IN  Classed(Add(warned, "sizes", "x" \o larg, i), i, "size")
         ELSE Classed(Add(st, "sizes", larg, i), i, "size")
    ELSE Arg_Quality(st, i, args, larg)

\* Safe Keywords (Filler)
Arg_SafeWord(st, i, args, larg) ==
    IF larg \in SAFE_WORDS /\ ~Exists(args[i])
    THEN Classed(st, i, "filler")
    ELSE Arg_Size(st, i, args, larg)

\* Pad
Arg_Pad(st, i, args, larg) ==
    IF larg \in {"pad", "fill", "--pad", "-pad"}
    THEN Classed(Set(st, "pad", TRUE), i, "pad")
    ELSE IF larg \in {"black", "white", "transparent"} /\ st.config.images = <<>>
    THEN Classed(Set(st, "pad_color", larg), i, "pad_color")
    ELSE Arg_SafeWord(st, i, args, larg)

\* PDF Keyword (Merge Trigger vs Format)
Arg_Pdf(st, i, args, larg) ==
    IF larg \in {"pdf", "--pdf", "-pdf"}
    THEN IF i > 1 /\ Lower(args[i - 1]) \in {"format", "formats", "--format", "-fmt"}
         THEN Classed(Add(st, "formats", "pdf", i), i, "format")
         ELSE Classed(Set(st, "pdf_merge", TRUE), i, "pdf_merge")
    ELSE Arg_Pad(st, i, args, larg)

\* Formats
Arg_Format(st, i, args, larg) ==
    IF larg \in {"format", "formats"}
    THEN Classed(st, i, "filler")
    ELSE IF larg \in FormatWords
    THEN Classed(Add(st, "formats", larg, i), i, "format")
    ELSE Arg_Pdf(st, i, args, larg)

\* Flags (Boolean), the two exits first
Arg_Boolean(st, i, args, larg) ==
    IF larg \in {"--version", "-v"}
    THEN Classed([st EXCEPT !.exit = "version"], i, "exit")
    ELSE IF larg = "--init-config"
    THEN Classed([st EXCEPT !.exit = "init-config"], i, "exit")
    ELSE IF larg \in {"--watch", "-watch", "-w", "--monitor", "-monitor", "watch", "monitor"}
    THEN Classed(Set(st, "watch", TRUE), i, "flag")
    ELSE IF larg \in {"--clipboard", "-clipboard", "-c", "-clip", "--paste", "-paste",
                      "clipboard", "paste"}
    THEN Classed(Set(st, "clipboard", TRUE), i, "flag")
    ELSE IF larg \in {"--crop", "-crop", "crop"}
    THEN Classed(Set(st, "crop", TRUE), i, "flag")
    ELSE IF larg \in {"--strip", "-strip", "-s", "--clean", "-clean", "--remove-metadata",
                      "-remove-metadata", "clean"}
    THEN Classed(Set(st, "strip", TRUE), i, "flag")
    ELSE IF larg \in {"--no-logs", "-no-logs"}
    THEN Classed(Set(st, "log_enabled", FALSE), i, "flag")
    ELSE IF larg \in {"!", "--force", "-force", "--stretch", "-stretch", "--!", "-!",
                      "stretch", "force"}
    THEN Classed(Set(st, "force", TRUE), i, "flag")
    ELSE Arg_Format(st, i, args, larg)

\* Quality Presets & Values: the keyword "quality"
Arg_QualityKeyword(st, i, args, larg) ==
    IF larg # "quality" THEN Arg_Boolean(st, i, args, larg)
    ELSE IF i + 1 <= Len(args) /\ IsDigit(args[i + 1])
    THEN Classed(SkipNext(Add(st, "qualities", int(args[i + 1]), i + 1)), i, "keyword")
    ELSE IF /\ i + 1 <= Len(args)
            /\ EndsWith(args[i + 1], "%") /\ IsDigit(DropLast(args[i + 1]))
    THEN Classed(SkipNext(Add(st, "qualities", int(DropLast(args[i + 1])), i + 1)),
                 i, "keyword")
    ELSE IF i > 1 /\ Lower(args[i - 1]) \in DOMAIN QUALITY_PRESETS
    THEN Classed(Add(st, "qualities", QUALITY_PRESETS[Lower(args[i - 1])], i - 1),
                 i, "keyword")
    ELSE Arg_Boolean(st, i, args, larg)

\* Gravity Keywords
Arg_GravityKeyword(st, i, args, larg) ==
    IF larg \notin GRAVITY_TERMS /\ larg \notin DOMAIN COMPOUND_GRAVITY
    THEN Arg_QualityKeyword(st, i, args, larg)
    ELSE IF WatermarkContext(args)
    THEN IF larg \in DOMAIN COMPOUND_GRAVITY
         THEN Classed([Set(st, "gravity", COMPOUND_GRAVITY[larg])
                          EXCEPT !.gravity_override = TRUE], i, "compound")
         ELSE IF larg \in {"top", "upper", "north"}
         THEN Classed([st EXCEPT !.v_align = "North"], i, "alignment")
         ELSE IF larg \in {"bottom", "lower", "south"}
         THEN Classed([st EXCEPT !.v_align = "South"], i, "alignment")
         ELSE IF larg \in {"left", "west"}
         THEN Classed([st EXCEPT !.h_align = "West"], i, "alignment")
         ELSE IF larg \in {"right", "east"}
         THEN Classed([st EXCEPT !.h_align = "East"], i, "alignment")
         ELSE Classed([st EXCEPT !.v_align = "Center", !.h_align = ""], i, "alignment")
    ELSE IF ~Exists(args[i])
    THEN Classed(Warn(st, "ignored", i), i, "ignored")
    ELSE Arg_QualityKeyword(st, i, args, larg)

\* Gravity
Arg_GravityFlag(st, i, args, larg) ==
    IF larg \in {"--gravity", "-g"}
    THEN IF i + 1 <= Len(args)
         THEN Classed([SkipNext(Set(st, "gravity", args[i + 1]))
                          EXCEPT !.gravity_override = TRUE], i, "gravity_flag")
         ELSE Classed(st, i, "gravity_flag")
    ELSE Arg_GravityKeyword(st, i, args, larg)

\* Metadata
Arg_Metadata(st, i, args, larg) ==
    IF larg = "remove" /\ i + 1 <= Len(args) /\ Lower(args[i + 1]) = "metadata"
    THEN Classed(SkipNext(Set(st, "strip", TRUE)), i, "keyword")
    ELSE Arg_GravityFlag(st, i, args, larg)

\* Watermark
Arg_Watermark(st, i, args, larg) ==
    IF larg \in {"--watermark", "-watermark", "-wm"}
    THEN IF i + 1 <= Len(args)
         THEN Classed(SkipNext(Set(st, "watermark", args[i + 1])), i, "watermark_flag")
         ELSE Classed(st, i, "watermark_flag")
    ELSE IF larg \in {"watermark", "wm"}
    THEN Classed([st EXCEPT !.watermark_keyword = TRUE], i, "watermark_keyword")
    ELSE Arg_Metadata(st, i, args, larg)

\* the words and flags that introduce the output folder
OutputWords == {"to", "into", "output", "-o", "--o", "-output", "--output", "--out", "-out"}

\* Output folder
Arg_Output(st, i, args, larg) ==
    IF larg \in OutputWords /\ i + 1 <= Len(args)
    THEN LET next_arg == args[i + 1]
             is_size == \/ next_arg \in DOMAIN PRESETS
                        \/ IsDigit(next_arg)
                        \/ IsGeometry(Lower(next_arg))
             is_format == Lower(next_arg) \in FormatWords
             is_explicit_flag == StartsWith(larg, "-")
         IN  IF is_explicit_flag \/ (~is_size /\ ~is_format)
             THEN Classed(SkipNext(Set(st, "output_folder",
                              IF Lower(next_arg) \in {"i", "input", "."}
                              THEN "__INPUT__" ELSE next_arg)), i, "output")
             ELSE Arg_Watermark(st, i, args, larg)
    ELSE Arg_Watermark(st, i, args, larg)

\* Quality
Arg_QualityFlag(st, i, args, larg) ==
    IF larg \in {"--quality", "-quality", "-q", "--q"}
    THEN IF i + 1 <= Len(args)
         THEN LET val == IF EndsWith(args[i + 1], "%")
                         THEN DropLast(args[i + 1]) ELSE args[i + 1]
              IN  Classed(SkipNext(IF IsDigit(val)
                                   THEN Add(st, "qualities", int(val), i + 1)
                                   ELSE st), i, "quality_flag")
         ELSE Classed(st, i, "quality_flag")
    ELSE Arg_Output(st, i, args, larg)

\* Format
Arg_FormatFlag(st, i, args, larg) ==
    IF larg \in {"--format", "-format", "-fmt", "--fmt"}
    THEN IF i + 1 <= Len(args)
         THEN Classed(SkipNext(Add(st, "formats", args[i + 1], i + 1)), i, "format_flag")
         ELSE Classed(st, i, "format_flag")
    ELSE Arg_QualityFlag(st, i, args, larg)

\* Resize
Arg_Resize(st, i, args, larg) ==
    IF larg \in {"--resize", "-resize", "-r", "-res", "--res", "--size", "-size", "-s"}
    THEN IF i + 1 <= Len(args)
         THEN LET val == args[i + 1]
              IN  Classed(SkipNext(Add(st, "sizes",
                              IF IsDigit(val) THEN "x" \o val ELSE val, i + 1)),
                          i, "resize_flag")
         ELSE Classed(st, i, "resize_flag")
    ELSE Arg_FormatFlag(st, i, args, larg)

\* Input File
Arg_Input(st, i, args, larg) ==
    IF larg \in {"--file", "-file", "-f", "--input", "-input", "-i"}
    THEN IF i + 1 <= Len(args)
         THEN Classed(SkipNext(Add(st, "images", args[i + 1], i + 1)), i, "input_flag")
         ELSE Classed(st, i, "input_flag")
    ELSE Arg_Resize(st, i, args, larg)

\* one pass of the loop body
ParseStep(st, i, args) ==
    IF st.skip_next
    THEN Classed([st EXCEPT !.skip_next = FALSE], i, "value")
    ELSE Arg_Input(st, i, args, Lower(args[i]))

RECURSIVE ParseLoop(_, _, _)
\* for i, arg in enumerate(args), until a sys.exit
ParseLoop(st, i, args) ==
    IF i > Len(args) \/ st.exit # "" THEN st
    ELSE ParseLoop(ParseStep(st, i, args), i + 1, args)

\* a _resolve_gravity that combines the words whatever the override says
_resolve_gravityNoOverride(st) ==
    IF st.v_align # "" \/ st.h_align # ""
    THEN Set(st, "gravity", st.v_align \o st.h_align)
    ELSE st

\* a _resolve_gravity that puts the horizontal word first
_resolve_gravitySwapped(st) ==
    IF ~st.gravity_override /\ (st.v_align # "" \/ st.h_align # "")
    THEN Set(st, "gravity", st.h_align \o st.v_align)
    ELSE st

_resolve_gravity(st) ==
    IF ~st.gravity_override /\ (st.v_align # "" \/ st.h_align # "")
    THEN IF st.v_align = "Center" /\ st.h_align = ""
         THEN Set(st, "gravity", "Center")
         ELSE LET g == st.v_align \o st.h_align
              IN  IF g # "" THEN Set(st, "gravity", g) ELSE st
    ELSE st

\* the order in which the run iterates over the set SUPPORTED_EXTS
SupportedExtsOrder ==
    <<".jpg", ".jpeg", ".png", ".webp", ".bmp", ".tiff", ".gif", ".ico">>

\* the candidates of _resolve_watermark, in the order they are tried
WatermarkCandidates ==
    LET E == SelectSeq(SupportedExtsOrder, LAMBDA e : e # ".png")
    IN  <<"watermark.png", "logo.png">>
        \o [k \in 1..(2 * Len(E)) |->
               (IF k % 2 = 1 THEN "watermark" ELSE "logo") \o E[(k + 1) \div 2]]

_resolve_watermark(st) ==
    IF st.watermark_keyword /\ ~Truthy(st.config.watermark)
    THEN LET found == {k \in DOMAIN WatermarkCandidates : Exists(WatermarkCandidates[k])}
         IN  IF found = {}
             THEN Warn(st, "no watermark image", 0)
             ELSE Set(st, "watermark",
                      WatermarkCandidates[CHOOSE k \in found : \A m \in found : k <= m])
    ELSE st

\* the defaults for the lists the tokens left empty
Defaulted(st, file_config) ==
    LET c == st.config
    IN  [st EXCEPT !.config =
            [c EXCEPT
                !.sizes = IF c.sizes = <<>>
                          THEN <<ConfigGet(file_config, "default_size", "x720")>> ELSE @,
                !.qualities = IF c.qualities = <<>>
                              THEN <<ConfigGet(file_config, "default_quality", 100)>> ELSE @,
                !.formats = IF c.formats = <<>> THEN <<None>> ELSE @]]

\* parse_arguments, given sys.argv[1:] and what load_config returned.  The
\* result carries the returned config, or exit = "usage" for None and
\* "version" / "init-config" for the two sys.exit calls.
parse_arguments(argv, file_config) ==
    IF argv = <<>>
    THEN [ParseStart(<<>>, file_config) EXCEPT !.exit = "usage"]
    ELSE LET args == _merge_spaced_args(argv)
             st == ParseLoop(ParseStart(args, file_config), 1, args)
         IN  IF st.exit # "" THEN st
             ELSE Defaulted(_resolve_watermark(_resolve_gravity(st)), file_config)

-----------------------------------------------------------------------------
(* SpecParse, SpecGravity: parse_arguments applied to bounded command lines *)

\* longest command line over the general vocabulary
MaxTokens == 3
\* longest command line over the watermark placement vocabulary
MaxGravityTokens == 4

GeneralTokens ==
    {"photo.jpg", "80", "150", "quality", "high", "-q", "to", "-o",
     "crop", "png", "pdf", "format", "wm", "-watermark", "top"}

GravityTokens ==
    {"wm", "-g", "North", "ne", "top", "bottom", "left", "right", "center"}

\* settings files: none, and one that sets every key
FileConfigs ==
    { <<>>,
      [output_folder |-> "out", pad_color |-> "white", log_enabled |-> TRUE,
       watermark |-> "logo.png", gravity |-> "NorthWest",
       default_quality |-> 90, default_size |-> "x1080"] }

ParseCalls ==
    { [fn |-> "parse_arguments", argv |-> a, file_config |-> c] :
        a \in SeqsUpTo(GeneralTokens, MaxTokens), c \in FileConfigs }

GravityCalls ==
    { [fn |-> "parse_arguments", argv |-> a, file_config |-> c] :
        a \in SeqsUpTo(GravityTokens, MaxGravityTokens), c \in FileConfigs }

\* the working directory: empty, or holding a file named after every token
\* of the command line
ParseFiles(argv) == { {}, {Path(".", argv[i]) : i \in DOMAIN argv} }

InitParse ==
    /\ call \in ParseCalls
    /\ ret = <<>>
    /\ fs \in ParseFiles(call.argv)
    /\ pc = "idle" /\ config = NoConfig /\ log_file = <<>>
    /\ InitPool /\ InitWatch

\* command lines of watermark placement words, in an empty directory
InitGravity ==
    /\ call \in GravityCalls
    /\ ret = <<>>
    /\ fs = {}
    /\ pc = "idle" /\ config = NoConfig /\ log_file = <<>>
    /\ InitPool /\ InitWatch

CallParseArguments ==
    /\ call.fn = "parse_arguments"
    /\ ret = <<>>
    /\ ret' = <<[fs |-> fs, value |-> parse_arguments(call.argv, call.file_config)]>>
    /\ UNCHANGED <<call, dispatchVars>>

NextParse == CallParseArguments

SpecParse == InitParse /\ [][NextParse]_vars

SpecGravity == InitGravity /\ [][NextParse]_vars

\* the command line as the loop of parse_arguments sees it
Args == _merge_spaced_args(call.argv)

\* parse_arguments has returned a config
Parsed == call.fn = "parse_arguments" /\ ret # <<>> /\ ret[1].value.exit = ""

-----------------------------------------------------------------------------
(* Properties of parse_arguments *)

\* every token of the command line is the path of an existing file
AllExistingFiles ==
    /\ call.argv # <<>>
    /\ \A i \in DOMAIN call.argv : Path(".", call.argv[i]) \in ret[1].fs

\* C11 as stated: when every token is the path of an existing file, the
\* returned images are exactly the tokens in order, and sizes, qualities,
\* formats, every flag and the output folder keep their default values.
C11_ExistingFilesAreInputs ==
    (call.fn = "parse_arguments" /\ ret # <<>> /\ AllExistingFiles)
    => /\ ret[1].value.exit = ""
       /\ ret[1].value.config =
              [InitialConfig(call.file_config) EXCEPT
                  !.images = call.argv,
                  !.sizes = <<ConfigGet(call.file_config, "default_size", "x720")>>,
                  !.qualities = <<ConfigGet(call.file_config, "default_quality", 100)>>,
                  !.formats = <<None>>]

\* token j of the command line is a bare integer that the loop classifies
\* itself, and the keyword "quality" does not stand right before it
BareInteger(j) ==
    /\ IsDigit(Args[j])
    /\ ~(j > 1 /\ Lower(Args[j - 1]) = "quality")

\* the warning about an integer that may have been meant as a quality
AmbiguityWarning(j) ==
    \E w \in DOMAIN ret[1].value.warnings :
        ret[1].value.warnings[w] = [kind |-> "ambiguous size", arg |-> j]

\* token j became the size x<N> and no quality
SizeNotQuality(j) ==
    /\ \E k \in DOMAIN ret[1].value.src.sizes :
           /\ ret[1].value.src.sizes[k] = j
           /\ ret[1].value.config.sizes[k] = "x" \o Args[j]
    /\ j \notin Range(ret[1].value.src.qualities)
    /\ AmbiguityWarning(j) <=> (40 <= int(Args[j]) /\ int(Args[j]) <= 100)

\* C12 (as amended): when parse_arguments returns a config, every bare
\* integer token that is not preceded by the keyword "quality", is not the
\* value consumed by an explicit option flag before it and is not the path
\* of an existing file is added to sizes as x<N> and not to qualities, with
\* the ambiguity warning exactly when its value lies in [40,100].
C12_BareIntegerIsSize ==
    Parsed =>
        \A j \in DOMAIN Args :
            (/\ BareInteger(j)
             /\ ret[1].value.classes[j] # "value"
             /\ ~(Path(".", Args[j]) \in ret[1].fs))
            => SizeNotQuality(j)

\* C12 as stated: every bare integer token that is not preceded by the
\* keyword "quality" is added to sizes and not to qualities.
C12_BareIntegerAsStated ==
    Parsed => \A j \in DOMAIN Args : BareInteger(j) => SizeNotQuality(j)

\* "photo.jpg 80 150": both integers are sizes, 80 with the warning
C12_Witness ==
    /\ Parsed
    /\ Args = <<"photo.jpg", "80", "150">>
    /\ fs = {}
    /\ ret[1].value.config.sizes = <<"x80", "x150">>
    /\ ret[1].value.config.images = <<"photo.jpg">>
    /\ AmbiguityWarning(2) /\ ~AmbiguityWarning(3)
    /\ ret[1].value.src.qualities = <<>>

\* token j sets the gravity explicitly: a compound direction, or the
\* gravity flag with a value after it
OverrideAt(j) ==
    \/ ret[1].value.classes[j] = "compound"
    \/ ret[1].value.classes[j] = "gravity_flag" /\ j < Len(Args)

\* C13: in watermark context, once a compound-direction token has been
\* resolved and no later token sets the gravity explicitly, the returned
\* gravity is the value of that compound token, whatever vertical or
\* horizontal alignment words follow it.
C13_CompoundWins ==
    Parsed =>
        \A i \in DOMAIN Args :
            (/\ ret[1].value.classes[i] = "compound"
             /\ \A j \in DOMAIN Args : j > i => ~OverrideAt(j))
            => ret[1].value.config.gravity = COMPOUND_GRAVITY[Lower(Args[i])]

\* "wm ne bottom left": the gravity stays NorthEast
C13_Witness ==
    /\ Parsed
    /\ Args = <<"wm", "ne", "bottom", "left">>
    /\ ret[1].value.classes = <<"watermark_keyword", "compound", "alignment", "alignment">>
    /\ ret[1].value.v_align = "South" /\ ret[1].value.h_align = "West"
    /\ ret[1].value.config.gravity = "NorthEast"

VerticalWords == {"top", "upper", "north", "bottom", "lower", "south"}
HorizontalWords == {"left", "west", "right", "east"}
CenterWords == {"center", "middle"}

\* the positions of the alignment words of set W that the loop resolved
Resolved(W) ==
    {j \in DOMAIN Args : ret[1].value.classes[j] = "alignment" /\ Lower(Args[j]) \in W}

\* the compass name of an alignment word
Compass(w) ==
    CASE w \in {"top", "upper", "north"} -> "North"
      [] w \in {"bottom", "lower", "south"} -> "South"
      [] w \in {"left", "west"} -> "West"
      [] w \in {"right", "east"} -> "East"

\* C14: in watermark context with no explicit override, when vertical and
\* horizontal alignment words (and no center word) were resolved, the
\* returned gravity is <Vertical><Horizontal> of the last word of each axis,
\* whatever their order and wherever the watermark keyword stands.
C14_AlignmentWordsCombine ==
    (/\ Parsed
     /\ Resolved(VerticalWords) # {}
     /\ Resolved(HorizontalWords) # {}
     /\ Resolved(CenterWords) = {}
     /\ \A j \in DOMAIN Args : ~OverrideAt(j))
    => ret[1].value.config.gravity =
           Compass(Lower(Args[Max(Resolved(VerticalWords))]))
               \o Compass(Lower(Args[Max(Resolved(HorizontalWords))]))

\* "right bottom wm top": the horizontal word first, the keyword in the
\* middle, two vertical words; the gravity is NorthEast
C14_Witness ==
    /\ Parsed
    /\ Args = <<"right", "bottom", "wm", "top">>
    /\ ret[1].value.classes = <<"alignment", "alignment", "watermark_keyword", "alignment">>
    /\ ret[1].value.config.gravity = "NorthEast"

\* the branches that take the next token as their value
FlagClasses ==
    {"input_flag", "resize_flag", "format_flag", "quality_flag", "output",
     "watermark_flag", "gravity_flag"}

\* the config entry a flag branch writes
FlagField(class) ==
    CASE class = "input_flag" -> "images"
      [] class = "resize_flag" -> "sizes"
      [] class = "format_flag" -> "formats"
      [] class = "quality_flag" -> "qualities"
      [] class = "output" -> "output_folder"
      [] class = "watermark_flag" -> "watermark"
      [] class = "gravity_flag" -> "gravity"

\* token i is an explicit dash-prefixed option flag followed by a token
ExplicitFlagAt(i) ==
    /\ ret[1].value.classes[i] \in FlagClasses
    /\ StartsWith(Args[i], "-")
    /\ i < Len(Args)

\* a token that no branch but the last one recognises
PlainValue == "value.bin"

\* C17 as stated: the token after an explicit option flag is consumed as
\* the flag's value only, and what it spells has no influence on how any
\* other token is classified nor on any other entry of the config: with a
\* plain value in its place the outcome is the same.
C17_FlagValueOnly ==
    Parsed =>
        \A i \in DOMAIN Args :
            ExplicitFlagAt(i) =>
                LET plain == parse_arguments([Args EXCEPT ![i + 1] = PlainValue],
                                             call.file_config)
                    field == FlagField(ret[1].value.classes[i])
                IN  /\ ret[1].value.classes[i + 1] = "value"
                    /\ plain.classes = ret[1].value.classes
                    /\ plain.warnings = ret[1].value.warnings
                    /\ \A f \in DOMAIN plain.config \ {field} :
                           plain.config[f] = ret[1].value.config[f]

\* every spelling the loop accepts as the watermark flag or keyword
WatermarkSpellings == {"--watermark", "-watermark", "-wm", "watermark", "wm"}

\* token j is an alignment word that no flag consumed
AlignmentWordAt(j) ==
    /\ Lower(Args[j]) \in GRAVITY_TERMS \cup DOMAIN COMPOUND_GRAVITY
    /\ ret[1].value.classes[j] # "value"

\* C18 as stated: an alignment word is interpreted as watermark placement
\* exactly when a watermark keyword or flag, in any accepted spelling,
\* occurs somewhere in the command line; otherwise, unless it names an
\* existing path, it is ignored with a warning.
C18_WatermarkContext ==
    Parsed =>
        \A j \in DOMAIN Args :
            AlignmentWordAt(j) =>
                LET occurs == \E a \in DOMAIN Args : Lower(Args[a]) \in WatermarkSpellings
                IN  /\ ret[1].value.classes[j] \in {"alignment", "compound"} <=> occurs
                    /\ (~occurs /\ Path(".", Args[j]) \notin ret[1].fs) =>
                           /\ ret[1].value.classes[j] = "ignored"
                           /\ \E w \in DOMAIN ret[1].value.warnings :
                                  ret[1].value.warnings[w] = [kind |-> "ignored", arg |-> j]

\* C19 as stated: a bare integer right after the keyword "quality" is added
\* to qualities and not to sizes, whatever comes before the keyword (the one
\* case set aside: the keyword is itself the value of an explicit flag).
C19_QualityKeyword ==
    Parsed =>
        \A j \in DOMAIN Args :
            (/\ Lower(Args[j]) = "quality"
             /\ j < Len(Args)
             /\ IsDigit(Args[j + 1])
             /\ ~(j > 1 /\ ExplicitFlagAt(j - 1)))
            => /\ \E k \in DOMAIN ret[1].value.src.qualities :
                      /\ ret[1].value.src.qualities[k] = j + 1
                      /\ ret[1].value.config.qualities[k] = int(Args[j + 1])
               /\ (j + 1) \notin Range(ret[1].value.src.sizes)

\* the nine canonical positions
CanonicalGravity ==
    {"NorthWest", "North", "NorthEast", "West", "Center", "East",
     "SouthWest", "South", "SouthEast"}

\* C20 as stated: when the persisted default and every value handed to the
\* gravity flag are canonical, the returned gravity is canonical.
C20_GravityCanonical ==
    (/\ Parsed
     /\ ConfigGet(call.file_config, "gravity", "SouthEast") \in CanonicalGravity
     /\ \A j \in DOMAIN Args :
            (ret[1].value.classes[j] = "gravity_flag" /\ j < Len(Args))
            => Args[j + 1] \in CanonicalGravity)
    => ret[1].value.config.gravity \in CanonicalGravity

-----------------------------------------------------------------------------
(* MagickProcessor.execute_task: the Command Synthesizer *)

\* the geometry arguments when the icon test compares the extension as it
\* is spelled
GeometryArgsCaseSensitive(task) ==
    IF Ext(task) = ".ico"
    THEN <<"-define", "icon:auto-resize=256,128,64,48,32,16">>
    ELSE <<"-resize", ResizeStr(task)>>

\* the geometry arguments when pad is looked at before crop
GeometryArgsPadFirst(task) ==
    IF Lower(Ext(task)) = ".ico"
    THEN <<"-define", "icon:auto-resize=256,128,64,48,32,16">>
    ELSE IF task.pad_mode
    THEN <<"-resize", ResizeStr(task), "-background", task.pad_color,
           "-gravity", "center", "-extent", ResizeStr(task)>>
    ELSE IF task.crop
    THEN <<"-resize", ResizeStr(task) \o "^", "-gravity", "center",
           "-extent", ResizeStr(task)>>
    ELSE <<"-resize", ResizeStr(task)>>

\* ICO Special Handling, else Normal Resize Logic
GeometryArgs(task) ==
    IF Lower(Ext(task)) = ".ico"
    THEN <<"-define", "icon:auto-resize=256,128,64,48,32,16">>
    ELSE IF task.crop
    THEN <<"-resize", ResizeStr(task) \o "^", "-gravity", "center",
           "-extent", ResizeStr(task)>>
    ELSE IF task.pad_mode
    THEN <<"-resize", ResizeStr(task), "-background", task.pad_color,
           "-gravity", "center", "-extent", ResizeStr(task)>>
    ELSE <<"-resize", ResizeStr(task)>>

\* Watermark Composite
WatermarkArgs(task) ==
    IF Truthy(task.watermark) /\ Exists(task.watermark)
    THEN <<PathStr(PathOf(task.watermark)), "-gravity", task.gravity, "-composite">>
    ELSE <<>>

\* cmd when the watermark step is put before the geometry directives
CmdWatermarkFirst(task, magick_cmd) ==
    <<magick_cmd, PathStr(task.image_path)>>
        \o (IF task.strip THEN <<"-strip">> ELSE <<>>)
        \o WatermarkArgs(task)
        \o GeometryArgs(task)
        \o <<"-quality", ToString(task.quality), PathStr(Outfile(task))>>

\* cmd, as handed to subprocess.run
Cmd(task, magick_cmd) ==
    <<magick_cmd, PathStr(task.image_path)>>
        \o (IF task.strip THEN <<"-strip">> ELSE <<>>)
        \o GeometryArgs(task)
        \o WatermarkArgs(task)
        \o <<"-quality", ToString(task.quality), PathStr(Outfile(task))>>

\* execute_task up to subprocess.run: the lines it logs and the argument
\* vector, empty when the input file is missing
execute_task(task, magick_cmd) ==
    IF ~PathExists(task.image_path)
    THEN [console |-> <<"error">>, cmd |-> <<>>]
    ELSE [console |-> IF Truthy(task.watermark) /\ ~Exists(task.watermark)
                      THEN <<"warn">> ELSE <<>>,
          cmd |-> Cmd(task, magick_cmd)]

-----------------------------------------------------------------------------
(* SpecCommand: execute_task applied to bounded Jobs *)

\* what get_magick_command finds on the PATH
MagickCommands == {"magick", "convert"}

CommandTasks ==
    { Task(p, r, q, f,
           [pad |-> pad, pad_color |-> "black", force |-> force, crop |-> crop,
            strip |-> strip, watermark |-> w, gravity |-> "SouthEast"]) :
        p \in {Path(".", "photo.jpg"), Path(".", "icon.ico"), Path(".", "ICON.ICO")},
        r \in {"720p", "100x100!"},
        q \in {80, 100},
        f \in {None, "ico", "ICO", "png"},
        pad \in BOOLEAN, force \in BOOLEAN, crop \in BOOLEAN, strip \in BOOLEAN,
        w \in {None, "logo.png"} }

CommandCalls ==
    { [fn |-> "execute_task", task |-> t, magick_cmd |-> m] :
        t \in CommandTasks, m \in MagickCommands }

InitCommand ==
    /\ call \in CommandCalls
    /\ ret = <<>>
    /\ fs \in { {}, {call.task.image_path},
                {call.task.image_path, Path(".", "logo.png"),
                 Path("output", PathStem(call.task.image_path) \o Suffix(call.task)
                                    \o Ext(call.task))} }
    /\ pc = "idle"
    /\ config \in { [Config("batch", <<call.task.image_path>>, <<"720p">>, FALSE)
                        EXCEPT !.output_folder = d] : d \in {"output", "__INPUT__"} }
    /\ log_file = <<>>
    /\ InitPool /\ InitWatch

CallExecuteTask ==
    /\ call.fn = "execute_task"
    /\ ret = <<>>
    /\ ret' = <<[fs |-> fs, value |-> execute_task(call.task, call.magick_cmd)]>>
    /\ UNCHANGED <<call, dispatchVars>>

NextCommand == CallExecuteTask

SpecCommand == InitCommand /\ [][NextCommand]_vars

\* the Job's output is an icon: the format ico was requested, in any letter
\* case, or none was requested and the input is an .ico file
IconJob(task) ==
    \/ Truthy(task.fmt) /\ Lower(task.fmt) = "ico"
    \/ ~Truthy(task.fmt) /\ Lower(PathSuffix(task.image_path)) = ".ico"

\* C15: the argument vector of an icon Job holds the auto-resize directive
\* with the list 256,128,64,48,32,16 and neither a resize directive, an
\* extent directive nor the requested geometry, whatever crop, pad and
\* force are.
C15_IconAutoResize ==
    (call.fn = "execute_task" /\ ret # <<>> /\ ret[1].value.cmd # <<>>
        /\ IconJob(call.task))
    => LET cmd == ret[1].value.cmd
       IN  /\ \E k \in 1..(Len(cmd) - 1) :
                  /\ cmd[k] = "-define"
                  /\ cmd[k + 1] = "icon:auto-resize=256,128,64,48,32,16"
           /\ \A k \in DOMAIN cmd :
                  /\ cmd[k] \notin {"-resize", "-extent"}
                  /\ cmd[k] \notin {ResizeStr(call.task), ResizeStr(call.task) \o "^"}

\* a photo converted to ICO with crop, pad and force all set
C15_Witness ==
    /\ call.fn = "execute_task"
    /\ ret # <<>>
    /\ call.task.image_path = Path(".", "photo.jpg")
    /\ call.task.fmt = "ICO"
    /\ call.task.resize = "720p"
    /\ call.task.crop /\ call.task.pad_mode /\ call.task.force
    /\ ~call.task.strip /\ call.task.watermark = None /\ call.task.quality = 80
    /\ config.output_folder = "output"
    /\ ret[1].value.cmd =
           <<call.magick_cmd, "photo.jpg", "-define",
             "icon:auto-resize=256,128,64,48,32,16", "-quality", "80",
             "output/photo_x720_Q80_pad_crop.ICO">>

-----------------------------------------------------------------------------
(* SpecPdf: main() on the PDF-merge path *)

\* longest list of input files of a PDF-merge run
MaxPdfInputs == 2

\* Path(d).mkdir(exist_ok=True): what it does on the current disk
Mkdir(d) ==
    IF IsDir(d) THEN "exists"
    ELSE IF IsFile(d) THEN "FileExistsError"
    ELSE IF ~IsDir(ParentOf(d)) THEN "FileNotFoundError"
    ELSE "created"

RECURSIVE Ancestors(_)
\* d and the folders above it, up to the working directory
Ancestors(d) == IF d = "." THEN {} ELSE {d} \cup Ancestors(ParentOf(d))

\* Path(d).mkdir(parents=True, exist_ok=True)
MkdirParents(d) ==
    IF \E a \in Ancestors(d) : IsFile(a) THEN "FileExistsError"
    ELSE IF IsDir(d) THEN "exists"
    ELSE "created"

\* folder / name
Join(d, name) == IF d = "." THEN name ELSE d \o "/" \o name

\* every order in which the members of S can be listed
Perms(S) == {f \in [1..Cardinality(S) -> S] : Range(f) = S}

\* Path(".").glob(pattern) for a pattern "*<tail>": the matches, as strings
GlobMatches(pattern) ==
    {p.name : p \in {q \in fs : q.parent = "." /\ q.name # ""
                                  /\ EndsWith(q.name, DropFirst(pattern))}}

RECURSIVE ResolveImages(_)
\* the loop over config["images"] of main: every list it can build, the
\* order of a glob's matches being the file system's
ResolveImages(image_args) ==
    IF image_args = <<>> THEN {<<>>}
    ELSE LET img_arg == Head(image_args)
             first == IF Contains(img_arg, "*") THEN Perms(GlobMatches(img_arg))
                      ELSE IF Exists(img_arg) THEN {<<img_arg>>}
                      ELSE {<<>>}
         IN  {a \o b : a \in first, b \in ResolveImages(Tail(image_args))}

\* Implicit selection for PDF Merge: all images in the current directory
ImplicitImages ==
    Perms({p.name : p \in {q \in fs : /\ q.parent = "." /\ q.name # ""
                                       /\ \E e \in SUPPORTED_EXTS : EndsWith(q.name, e)}})

\* the images main hands to merge_images_to_pdf
SelectedImages ==
    UNION { IF images = <<>> /\ config.pdf_merge THEN ImplicitImages ELSE {images} :
              images \in ResolveImages(config.images) }

PdfImage(i) == "img" \o ToString(i) \o ".jpg"

\* the configurations parse_arguments returns for a PDF-merge command line
PdfConfigs ==
    { [InitialConfig(<<>>) EXCEPT
          !.pdf_merge = TRUE, !.images = imgs, !.output_folder = d,
          !.sizes = <<"x720">>, !.qualities = <<100>>, !.formats = <<None>>] :
        imgs \in {[i \in 1..k |-> PdfImage(i)] : k \in 0..MaxPdfInputs} \cup {<<"*.jpg">>},
        d \in {"output", "out.pdf", "docs/out.pdf", "pdfs", "__INPUT__"} }

\* the disks a PDF-merge run may start on
PdfDisks ==
    SUBSET ({Path(".", PdfImage(i)) : i \in 1..MaxPdfInputs}
                \cup {Folder("output"), Folder("docs"), Path(".", "out.pdf")})

InitPdf ==
    /\ call \in { [fn |-> "main", mode |-> "pdf", events |-> 0,
                   magick_cmd |-> m, timestamp |-> t] :
                    m \in MagickCommands,
                    t \in {"20240101_120000", "20240101_120001"} }
    /\ ret = <<>>
    /\ pc = "start"
    /\ config = NoConfig
    /\ fs \in PdfDisks
    /\ log_file = <<>>
    /\ InitPool /\ InitWatch

\* config = parse_arguments()
Main_ParsePdf ==
    /\ pc = "start"
    /\ call.mode = "pdf"
    /\ config' \in PdfConfigs
    /\ pc' = "construct"
    /\ UNCHANGED <<pureVars, fs, poolVars, watchVars>>

\* processor = MagickProcessor(config["output_folder"], ...): __init__
\* makes the output folder unless it is the sentinel
Main_Construct ==
    /\ pc = "construct"
    /\ IF config.output_folder = "__INPUT__"
       THEN pc' = "select" /\ fs' = fs
       ELSE LET made == Mkdir(config.output_folder)
            IN  /\ pc' = IF made \in {"exists", "created"} THEN "select" ELSE "crashed"
                /\ fs' = IF made = "created"
                         THEN fs \cup {Folder(config.output_folder)} ELSE fs
    /\ UNCHANGED <<pureVars, config, poolVars, watchVars>>

\* merge_images_to_pdf up to subprocess.run: the folders it makes and the
\* command it builds
merge_images_to_pdf(images, output_folder) ==
    LET target_folder == IF output_folder = "__INPUT__"
                         THEN ParentOf(images[1]) ELSE output_folder
        is_file == EndsWith(Lower(target_folder), ".pdf")
        first == IF output_folder = "output" THEN Mkdir("output") ELSE "exists"
        outfile == IF is_file THEN target_folder
                   ELSE Join(target_folder, "merged_" \o call.timestamp \o ".pdf")
        \* the folder made with parents=True, "." when none is
        folder == IF is_file THEN ParentOf(target_folder)
                  ELSE IF Exists(target_folder) \/ first = "created" THEN "."
                  ELSE target_folder
        second == IF folder = "." THEN "exists" ELSE MkdirParents(folder)
    IN  IF first \notin {"exists", "created"} \/ second \notin {"exists", "created"}
        THEN /\ pc' = "crashed"
             /\ fs' = fs
             /\ ret' = ret
        ELSE /\ pc' = "engine"
             /\ fs' = fs \cup (IF first = "created" THEN {Folder("output")} ELSE {})
                        \cup (IF second = "created"
                              THEN {Folder(a) : a \in Ancestors(folder)} ELSE {})
             /\ ret' = <<[fs |-> fs, value |->
                            [images |-> images, outfile |-> outfile,
                             cmd |-> <<call.magick_cmd>> \o images \o <<outfile>>]]>>

\* Mode 3 with pdf_merge: the input files are resolved and merged
Main_PdfMerge ==
    /\ pc = "select"
    /\ config.pdf_merge
    /\ \E images \in SelectedImages :
        IF images = <<>>
        THEN pc' = "done" /\ fs' = fs /\ ret' = ret
        ELSE merge_images_to_pdf(images, config.output_folder)
    /\ UNCHANGED <<call, config, poolVars, watchVars>>

\* subprocess.run(cmd, check=True): the engine writes the document, exits
\* non-zero, or cannot be started; it cannot write onto a folder
Pdf_Engine ==
    /\ pc = "engine"
    /\ \E r \in EngineResults :
        /\ r = "ok" => ~IsDir(ret[1].value.outfile)
        /\ fs' = IF r = "ok" THEN fs \cup {PathOf(ret[1].value.outfile)} ELSE fs
        /\ pc' = IF r = "oserror" THEN "crashed" ELSE "done"
        /\ outcome' = <<IF r = "ok" THEN "success"
                        ELSE IF r = "nonzero" THEN "failed" ELSE "raised">>
        /\ console' = <<IF r = "ok" THEN <<"info", "success">>
                        ELSE IF r = "nonzero" THEN <<"info", "error">> ELSE <<"info">>>>
    /\ UNCHANGED <<pureVars, config, all_tasks, next_task, threads, runs, log_file,
                   watchVars>>

NextPdf == Main_ParsePdf \/ Main_Construct \/ Main_PdfMerge \/ Pdf_Engine

SpecPdf == InitPdf /\ [][NextPdf]_vars

\* C16 as stated: on the PDF-merge path a destination ending in .pdf is a
\* literal file path, so no folder ever exists at the destination itself
\* and the engine is handed every resolved input in order and then that
\* path; any other destination is a folder that exists by then, and the last
\* argument is the timestamped file name inside it.
C16_PdfDestination ==
    (call.fn = "main" /\ call.mode = "pdf" /\ pc # "start")
    => LET d == config.output_folder
       IN  IF EndsWith(Lower(d), ".pdf")
           THEN /\ Folder(d) \notin fs
                /\ ret # <<>> =>
                       ret[1].value.cmd =
                           <<call.magick_cmd>> \o ret[1].value.images \o <<d>>
           ELSE (d # "__INPUT__" /\ ret # <<>>) =>
                    /\ IsDir(d)
                    /\ ret[1].value.cmd =
                           <<call.magick_cmd>> \o ret[1].value.images
                               \o <<Join(d, "merged_" \o call.timestamp \o ".pdf")>>

-----------------------------------------------------------------------------
(* Properties of the returned qualities and formats *)

\* C21 as stated: when the persisted default quality lies in [0,100], the
\* returned qualities are non-empty and every element is an integer in
\* [0,100], whichever syntax supplied it.
C21_QualitiesInRange ==
    (/\ Parsed
     /\ ConfigGet(call.file_config, "default_quality", 100) \in 0..100)
    => /\ ret[1].value.config.qualities # <<>>
       /\ \A k \in DOMAIN ret[1].value.config.qualities :
              ret[1].value.config.qualities[k] \in 0..100

\* the token before token j introduces a format: the keyword, or an
\* explicit format flag
FormatIntroduced(j) ==
    /\ j > 1
    /\ Lower(Args[j - 1]) \in {"format", "formats", "--format", "-format", "-fmt", "--fmt"}

\* C25 as stated: an occurrence of the keyword "pdf" that is not the value
\* of an explicit flag is appended to formats iff the token right before it
\* introduces a format, and otherwise sets PDF-merge mode and adds nothing
\* to formats; never both, never neither.
C25_PdfKeyword ==
    Parsed =>
        \A j \in DOMAIN Args :
            (/\ Lower(Args[j]) = "pdf"
             /\ ~(j > 1 /\ ExplicitFlagAt(j - 1)))
            => IF FormatIntroduced(j)
               THEN /\ ret[1].value.classes[j] = "format"
                    /\ \E k \in DOMAIN ret[1].value.src.formats :
                           /\ ret[1].value.src.formats[k] = j
                           /\ ret[1].value.config.formats[k] = "pdf"
               ELSE /\ ret[1].value.classes[j] = "pdf_merge"
                    /\ ret[1].value.config.pdf_merge
                    /\ j \notin Range(ret[1].value.src.formats)

-----------------------------------------------------------------------------
(* Properties of the argument vector of execute_task *)

\* execute_task has built an argument vector for the Job
Synthesized == call.fn = "execute_task" /\ ret # <<>> /\ ret[1].value.cmd # <<>>

\* the watermark composite step is in the argument vector
CompositeEmitted == \E k \in DOMAIN ret[1].value.cmd : ret[1].value.cmd[k] = "-composite"

\* C22 as stated: the output name is the input's stem, then the suffix made
\* of the resolved geometry, _Q<quality> iff quality is not 100, _pad iff
\* pad, _crop iff crop, _clean iff strip and _wm iff the composite step is in
\* the same argument vector, then the extension; a missing watermark file
\* gives neither the step nor _wm.
C22_SuffixOrder ==
    Synthesized =>
        LET task == call.task
            cmd == ret[1].value.cmd
            suffix == "_" \o ResizeStr(task)
                          \o (IF task.quality # 100
                              THEN "_Q" \o ToString(task.quality) ELSE "")
                          \o (IF task.pad_mode THEN "_pad" ELSE "")
                          \o (IF task.crop THEN "_crop" ELSE "")
                          \o (IF task.strip THEN "_clean" ELSE "")
                          \o (IF CompositeEmitted THEN "_wm" ELSE "")
        IN  cmd[Len(cmd)] =
                PathStr(safe_filename(PathStem(task.image_path), suffix,
                                      Ext(task), TargetFolder(task)))

\* how many times the word w stands in the argument vector
Occurrences(w) ==
    Cardinality({k \in DOMAIN ret[1].value.cmd : ret[1].value.cmd[k] = w})

\* the argument vector holds the tokens seg, in a row, from position k on
SegmentAt(k, seg) ==
    /\ k + Len(seg) - 1 <= Len(ret[1].value.cmd)
    /\ SubSeq(ret[1].value.cmd, k, k + Len(seg) - 1) = seg

\* C23: the argument vector holds exactly one geometry strategy, chosen in
\* the order icon format, crop, pad, plain resize; with crop and pad both set
\* the fill-resize, center-gravity and extent directives are emitted and no
\* background directive; the stretch marker is appended to the geometry iff
\* force is set, crop is not set and the geometry does not end with it.
C23_OneGeometryStrategy ==
    Synthesized =>
        LET task == call.task
            plain == PresetsGet(Lower(task.resize), task.resize)
            geometry == IF task.force /\ ~task.crop /\ ~EndsWith(plain, "!")
                        THEN plain \o "!" ELSE plain
            first == IF task.strip THEN 4 ELSE 3
        IN  IF IconJob(task)
            THEN /\ SegmentAt(first, <<"-define", "icon:auto-resize=256,128,64,48,32,16">>)
                 /\ Occurrences("-define") = 1
                 /\ Occurrences("-resize") = 0
                 /\ Occurrences("-extent") = 0
                 /\ Occurrences("-background") = 0
            ELSE IF task.crop
            THEN /\ geometry = plain
                 /\ SegmentAt(first, <<"-resize", plain \o "^", "-gravity", "center",
                                       "-extent", plain>>)
                 /\ Occurrences("-resize") = 1
                 /\ Occurrences("-extent") = 1
                 /\ Occurrences("-background") = 0
                 /\ Occurrences("-define") = 0
            ELSE IF task.pad_mode
            THEN /\ SegmentAt(first, <<"-resize", geometry, "-background",
                                       task.pad_color, "-gravity", "center",
                                       "-extent", geometry>>)
                 /\ Occurrences("-resize") = 1
                 /\ Occurrences("-extent") = 1
                 /\ Occurrences("-background") = 1
                 /\ Occurrences("-define") = 0
            ELSE /\ SegmentAt(first, <<"-resize", geometry>>)
                 /\ Occurrences("-resize") = 1
                 /\ Occurrences("-extent") = 0
                 /\ Occurrences("-background") = 0
                 /\ Occurrences("-define") = 0

\* crop, pad and force all set on a PNG Job: the crop directives, no
\* background directive, no stretch marker
C23_Witness ==
    /\ Synthesized
    /\ call.task.image_path = Path(".", "photo.jpg")
    /\ call.task.resize = "720p" /\ call.task.fmt = "png"
    /\ call.task.crop /\ call.task.pad_mode /\ call.task.force
    /\ ~call.task.strip /\ call.task.watermark = None /\ call.task.quality = 80
    /\ config.output_folder = "output"
    /\ ret[1].value.cmd =
           <<call.magick_cmd, "photo.jpg", "-resize", "x720^", "-gravity",
             "center", "-extent", "x720", "-quality", "80",
             "output/photo_x720_Q80_pad_crop.png">>

\* the watermark reference of the Job is set and is on disk
WatermarkOnDisk == Truthy(call.task.watermark) /\ Exists(call.task.watermark)

\* C24: after the engine's name the argument vector is, in this order, the
\* input path; -strip right after it iff strip is set; the geometry
\* directives; iff the watermark reference is set and on disk, the watermark
\* path, the gravity directive with the Job's gravity and the composite
\* directive; and, as the last three tokens, the quality directive, the
\* numeric quality and the output path.
C24_ArgumentOrder ==
    Synthesized =>
        LET task == call.task
            cmd == ret[1].value.cmd
            n == Len(cmd)
            first == IF task.strip THEN 4 ELSE 3
            last == IF WatermarkOnDisk THEN n - 7 ELSE n - 3
        IN  /\ cmd[1] = call.magick_cmd
            /\ cmd[2] = PathStr(task.image_path)
            /\ Occurrences("-strip") = (IF task.strip THEN 1 ELSE 0)
            /\ task.strip => cmd[3] = "-strip"
            /\ first <= last
            /\ cmd[first] \in {"-define", "-resize"}
            /\ \A k \in first..last :
                   cmd[k] \notin {"-strip", "-composite", "-quality"}
            /\ IF WatermarkOnDisk
               THEN /\ SegmentAt(n - 6, <<PathStr(PathOf(task.watermark)), "-gravity",
                                          task.gravity, "-composite">>)
                    /\ Occurrences("-composite") = 1
               ELSE Occurrences("-composite") = 0
            /\ Occurrences("-quality") = 1
            /\ SegmentAt(n - 2, <<"-quality", ToString(task.quality),
                                  PathStr(Outfile(task))>>)

\* a padded, stripped Job with its watermark on disk and the candidate
\* output already taken
C24_Witness ==
    /\ Synthesized
    /\ call.task.image_path = Path(".", "photo.jpg")
    /\ call.task.resize = "720p" /\ call.task.fmt = "png"
    /\ call.task.pad_mode /\ call.task.strip
    /\ ~call.task.crop /\ ~call.task.force
    /\ call.task.watermark = "logo.png" /\ call.task.quality = 80
    /\ config.output_folder = "output"
    /\ Path(".", "logo.png") \in fs
    /\ ret[1].value.cmd =
           <<call.magick_cmd, "photo.jpg", "-strip", "-resize", "x720",
             "-background", "black", "-gravity", "center", "-extent", "x720",
             "logo.png", "-gravity", "SouthEast", "-composite",
             "-quality", "80", "output/photo_x720_Q80_pad_clean_wm_v1.png">>

-----------------------------------------------------------------------------
(* SpecSameName: a batch run whose Jobs share a candidate output name *)

\* how many times the same input file is listed on the command line
MaxCopies == 2

\* the same file listed once or several times, with one size token or two
\* that resolve to one geometry; and two files of the same name in two
\* folders, converted into the one output folder
SameNameConfigs ==
    { Config("batch", [i \in 1..k |-> InputFile(1)], s, FALSE) :
        k \in 1..MaxCopies, s \in {<<"x720">>, <<"720p", "x720">>} }
    \cup
    { Config("batch", <<Path("a", "img1.jpg"), Path("b", "img1.jpg")>>,
             <<"x720">>, FALSE) }

\* config = parse_arguments() for such a command line
Main_ParseSameName ==
    /\ pc = "start"
    /\ config' \in SameNameConfigs
    /\ fs' = {config'.images[i] : i \in DOMAIN config'.images}
    /\ pc' = "dispatch"
    /\ UNCHANGED <<pureVars, poolVars, watchVars>>

NextSameName ==
    \/ Main_ParseSameName
    \/ Main_Batch
    \/ Main_Join
    \/ \E w \in Workers : Task_Begin(w)
    \/ \E w \in Workers : Task_End(w)
    \/ \E p \in fs : FileVanishes(p)

SpecSameName == InitBatch /\ [][NextSameName]_vars

\* C26 as stated: in batch mode no two Jobs that are inside their engine
\* invocations at the same time were handed the same output path.
C26_DistinctOutputPaths ==
    \A t, u \in Threads :
        (t # u /\ threads[t].task # 0 /\ threads[u].task # 0)
        => threads[t].outfile # threads[u].outfile

-----------------------------------------------------------------------------
(* SpecInPlace: a watch run that writes into the watched directory *)

\* the destinations of a watch run: the default folder, the sentinel for
\* the folder of the input, and the working directory itself
InPlaceConfigs ==
    { [Config("watch", <<>>, s, FALSE) EXCEPT !.output_folder = d] :
        s \in {<<"x720">>, <<"720p", "x1080">>},
        d \in {"output", "__INPUT__", "."} }

\* config = parse_arguments() for such a command line
Main_ParseInPlace ==
    /\ pc = "start"
    /\ config' \in InPlaceConfigs
    /\ fs' = {}
    /\ pc' = "dispatch"
    /\ UNCHANGED <<pureVars, poolVars, watchVars>>

InitInPlace == InitMain("watch", MaxEvents)

NextInPlace ==
    \/ Main_ParseInPlace
    \/ Main_Watch
    \/ Main_Interrupt
    \/ Main_ObserverJoin
    \/ Handler_OnCreated
    \/ Handler_Expand
    \/ Handler_Return
    \/ Tick
    \/ Task_Begin(0)
    \/ Task_End(0)
    \/ \E p \in WatchedFiles : FileCreated(p)
    \/ \E p \in fs : FileVanishes(p)

SpecInPlace == InitInPlace /\ [][NextInPlace]_vars

\* the events, delivered or not, of files that were copied into the watched
\* directory from outside
ExternalEvents ==
    Cardinality({i \in DOMAIN handled : handled[i].path \in WatchedFiles})
        + Cardinality({i \in DOMAIN event_queue : event_queue[i].path \in WatchedFiles})

\* C27 as stated: in watch mode the Jobs number at most |sizes| x
\* |qualities| x |formats| for every external file-creation event, whatever
\* the output destination is: no file written by a Job starts a round.
C27_NoFeedbackRound ==
    (call.fn = "main" /\ call.mode = "watch" /\ config # NoConfig)
    => Len(all_tasks) <=
           ExternalEvents * Len(config.o.sizes) * Len(config.o.qualities)
                          * Len(config.o.formats)

====
